---- MODULE Spec2Model ----
(***************************************************************************)
(* NMIS-EcoPass: the mapping engine (mapping/engine.py), the transform     *)
(* registry (mapping/transforms.py), the mapping loader                    *)
(* (mapping/loader.py) and the entry of DPPBridge.transform                *)
(* (core/bridge.py), as a state machine.                                   *)
(*                                                                         *)
(* Values.  Every Python scalar is a string token.  None is the token      *)
(* "None".  A nested dict (an output document, a container of the          *)
(* configuration) is a "tree": a function from the paths of its leaves     *)
(* (non-empty sequences of keys) to the leaf values; an empty dict that    *)
(* sits at a path is the leaf "{}".  The dicts of the mapping              *)
(* configuration (a rule's default: {...}, a value of a lookup table) are  *)
(* Python objects that are passed by reference: a leaf "@D" or "@T" is a   *)
(* reference to such an object and heap[o] is the object's present         *)
(* content.                                                                *)
(***************************************************************************)
EXTENDS Integers, Sequences, FiniteSets, TLC

VARIABLES
    api,        \* which entry point runs: "execute", "bridge", "stepwise"
    mappingArg, \* how the mapping is passed: "dict" or "path"
    file,       \* the mapping file when mappingArg = "path"
    mapping,    \* the mapping dict in hand: [connector, rules]
    source,     \* the source file: [recs, bad]
    heap,       \* content of the containers owned by the configuration
    pc,         \* position in the running call
    call,       \* number of calls begun
    connector,  \* TRUE once ConnectorFactory.create has returned
    records,    \* records = list(connector.parse(source_file)), so far
    results,    \* the local list results of execute
    applied,    \* number of times the transformer was invoked in this call
    outcome,    \* what the call returned or raised
    first,      \* the outcome of the first call, as observed when it ended
    tcall,      \* a direct call of a transform function: [fn, value, spec]
    tres,       \* what that call gave: a value or an exception
    xdoc,       \* the XML source handed to ISA95Connector.parse
    xpc,        \* position in ISA95Connector.parse
    xelements,  \* elements = self._find_elements(root, self.root_element)
    xyielded,   \* the records the generator has yielded so far
    xerror,     \* the exception parse has raised ("none" when none)
    schemas,    \* SchemaRegistry._schemas: lower-cased name -> schema class
    contexts,   \* SchemaRegistry._contexts: lower-cased name -> context
    registered, \* history: the register calls made so far, in order
    rres,       \* the last SchemaRegistry call and what it gave
    bcfg,       \* the arguments of a DPPBridge.transform call
    bpc,        \* position in DPPBridge.transform
    bresults,   \* results = self.engine.execute(mapping_config, source)
    bnext,      \* index of the next record of the validation loop
    blog,       \* history: the stages the call has gone through, in order
    bwritten,   \* what the call has written to the output file
    bout,       \* what the call returned or raised
    ecall,      \* a direct call of the exporter: [context, items, output]
    eres,       \* what that call returned and wrote
    csvArgs,      \* the arguments of CSVConnector(...): [delimiter, skip_rows]
    csvDelimiter, \* self.delimiter of the CSVConnector instance
    csvSource,    \* the file of the last parse of the instance
    csvYielded,   \* the records that parse yielded
    csvError      \* the exception that parse raised ("none" when none)

\* The state of a run of the mapping engine.
engineVars == <<api, mappingArg, file, mapping, source, heap, pc, call,
                connector, records, results, applied, outcome, first>>

\* The state of a direct call of a transform function.
transformVars == <<tcall, tres>>

\* The state of a run of ISA95Connector.parse.
isa95Vars == <<xdoc, xpc, xelements, xyielded, xerror>>

\* The state of the SchemaRegistry class.
registryVars == <<schemas, contexts, registered, rres>>

\* The state of a DPPBridge.transform call, after the mapping is loaded.
bridgeVars == <<bcfg, bpc, bresults, bnext, blog, bwritten, bout>>

\* The state of a direct call of JSONLDExporter.
exportVars == <<ecall, eres>>

\* The state of a CSVConnector instance and of its last parse.
csvVars == <<csvArgs, csvDelimiter, csvSource, csvYielded, csvError>>

\* What a run of the mapping engine leaves alone.
others == <<transformVars, isa95Vars, registryVars, bridgeVars, exportVars,
            csvVars>>

\* What a direct call of a transform function leaves alone.
notTransform == <<engineVars, isa95Vars, registryVars, bridgeVars, exportVars,
                  csvVars>>

\* What a run of ISA95Connector.parse leaves alone.
notIsa95 == <<engineVars, transformVars, registryVars, bridgeVars, exportVars,
              csvVars>>

\* What a call of SchemaRegistry leaves alone.
notRegistry == <<engineVars, transformVars, isa95Vars, bridgeVars, exportVars,
                 csvVars>>

\* What a DPPBridge.transform call leaves alone, the registry apart.
notBridge == <<engineVars, transformVars, isa95Vars, exportVars, csvVars>>

\* What a direct call of JSONLDExporter leaves alone.
notExport == <<engineVars, transformVars, isa95Vars, registryVars, bridgeVars,
               csvVars>>

\* What a CSVConnector leaves alone.
notCsv == <<engineVars, transformVars, isa95Vars, registryVars, bridgeVars,
            exportVars>>

vars == <<engineVars, transformVars, isa95Vars, registryVars, bridgeVars,
          exportVars, csvVars>>

-----------------------------------------------------------------------------
(* Bounds of the model *)

MaxRules == 3

MaxRecords == 2

MaxCalls == 2

\* The number of parts of a template.
MaxParts == 2

\* The number of lines of a CSV file, and the largest skip_rows.
MaxLines == 3

MaxSkip == 1

\* The number of Property elements of a MaterialLot, and of MaterialLot
\* elements under a wrapping root.
MaxProps == 1

MaxLots == 2

-----------------------------------------------------------------------------
(* Values and trees *)

None == "None"

EmptyDict == "{}"

Objs == {"@D", "@T"}

IsRef(v) == v \in Objs

IsPrefix(p, q) == Len(p) <= Len(q) /\ SubSeq(q, 1, Len(p)) = p

Comparable(p, q) == IsPrefix(p, q) \/ IsPrefix(q, p)

EmptyTree == [p \in {} |-> None]

Restrict(t, S) == [p \in S |-> t[p]]

Put(t, p, v) == [x \in (DOMAIN t) \cup {p} |-> IF x = p THEN v ELSE t[x]]

\* HasKey that never finds the key: the intermediate dict is created anew
\* on every walk.
HasKeyNever(t, q, k) == FALSE

\* key in current, where current is the dict at position q of tree t
HasKey(t, q, k) == \E p \in DOMAIN t : IsPrefix(Append(q, k), p)

\* current[key] = {}
\* Assign as setdefault: a value that is there is kept.
AssignKeepFirst(t, q, k, v) ==
    LET child == Append(q, k)
        keep  == {p \in DOMAIN t : p # q}
    IN  IF \E p \in DOMAIN t : IsPrefix(child, p)
        THEN t
        ELSE Put(Restrict(t, keep), child, v)

\* current[key] = value
Assign(t, q, k, v) ==
    LET child == Append(q, k)
        keep  == {p \in DOMAIN t : ~IsPrefix(child, p) /\ p # q}
    IN  Put(Restrict(t, keep), child, v)

\* current[key] = {}
CreateEmpty(t, q, k) == Assign(t, q, k, EmptyDict)

\* The content of the configuration's containers as loaded.
HeapInit == [o \in Objs |-> IF o = "@T" THEN Put(EmptyTree, <<"k">>, "1")
                                       ELSE EmptyTree]

-----------------------------------------------------------------------------
(* mapping/engine.py: _set_nested *)

\* The walk of _set_nested from the dict at position q of the tree `where`
\* (the document under construction, or a container of the configuration that
\* the walk has entered through a reference).  keys is what is left of the
\* path.  ok = FALSE is the TypeError Python raises when the walk reaches a
\* value that is not a dict (a string, a number, a list).
RECURSIVE Walk(_, _, _, _, _, _)
Walk(doc, h, where, q, keys, value) ==
    LET t     == IF where = "doc" THEN doc ELSE h[where]
        k     == Head(keys)
        child == Append(q, k)
        Stored(t2) ==
            IF where = "doc"
            THEN [ok |-> TRUE, doc |-> t2, heap |-> h]
            ELSE [ok |-> TRUE, doc |-> doc, heap |-> [h EXCEPT ![where] = t2]]
    IN  IF Len(keys) = 1
        THEN Stored(Assign(t, q, k, value))
        ELSE LET t1 == IF HasKey(t, q, k) THEN t ELSE CreateEmpty(t, q, k)
                 s  == Stored(t1)
             IN  IF child \in DOMAIN t1 /\ IsRef(t1[child])
                 THEN Walk(s.doc, s.heap, t1[child], <<>>, Tail(keys), value)
                 ELSE IF child \in DOMAIN t1 /\ t1[child] # EmptyDict
                 THEN [ok |-> FALSE, doc |-> s.doc, heap |-> s.heap]
                 ELSE Walk(s.doc, s.heap, where, child, Tail(keys), value)

SetNested(doc, h, path, value) == Walk(doc, h, "doc", <<>>, path, value)

-----------------------------------------------------------------------------
(* mapping/transforms.py: TransformRegistry *)

EmptyTable == [x \in {} |-> None]

NoTransform == [type |-> "none", table |-> EmptyTable, default |-> None]

\* TransformRegistry._register_builtin: the names in the order in which they
\* are registered (the order of ', '.join(self._transforms.keys())).
Builtin == <<"str", "int", "float", "datetime", "lookup", "template",
             "aggregate">>

\* The names that are registered.
Registered == {Builtin[i] : i \in DOMAIN Builtin}

\* What a call of a transform function gives: a value, or an exception.
Ret(v) == [raised |-> FALSE, val |-> v, exc |-> "none"]

Throw(e) == [raised |-> TRUE, val |-> None, exc |-> e]

\* kwargs.get(name): the keyword when the spec has it, else None.
Kw(spec, name) == IF name \in DOMAIN spec THEN spec[name] ELSE None

\* The Python values that are not str and not None, as tokens: the int 7,
\* an int beyond the range of float, a list.
BigInt == "int:10**400"

NonStrings == {"int:7", BigInt, "list:[]"}

\* float(value).  A finite result is held in hundredths (h); the strings of
\* the model that parse are listed, any other string is not a number.
Hundredths ==
    [v \in {"123.45", "-7.9", "12.7", "2.5", "int:7"} |->
        CASE v = "123.45" -> 12345
          [] v = "-7.9"   -> -790
          [] v = "12.7"   -> 1270
          [] v = "2.5"    -> 250
          [] v = "int:7"  -> 700]

Float(v) ==
    CASE v \in DOMAIN Hundredths -> [kind |-> "fin", h |-> Hundredths[v]]
      [] v = "inf"               -> [kind |-> "inf", h |-> 0]
      [] v = "nan"               -> [kind |-> "nan", h |-> 0]
      [] v = BigInt              -> [kind |-> "OverflowError", h |-> 0]
      [] v = "list:[]"           -> [kind |-> "TypeError", h |-> 0]
      [] OTHER                   -> [kind |-> "ValueError", h |-> 0]

IsException(f) == f.kind \in {"ValueError", "TypeError", "OverflowError"}

\* int(f) of a float: truncation toward zero; no int for inf and nan.
IntOf(f) ==
    CASE f.kind = "fin" ->
            Ret("int:" \o ToString(IF f.h >= 0 THEN f.h \div 100
                                   ELSE -((-f.h) \div 100)))
      [] f.kind = "inf" -> Throw("OverflowError")
      [] f.kind = "nan" -> Throw("ValueError")

\* The float f as a value.
FloatValue(f) ==
    CASE f.kind = "fin" -> "float:" \o ToString(f.h) \o "e-2"
      [] f.kind = "inf" -> "float:inf"
      [] f.kind = "nan" -> "float:nan"

\* round(f, precision) with precision 0 or 2 (halves of the hundredths
\* scale are exact in binary, so round-half-even is what Python does with
\* them); a precision that is not an int is a TypeError.
Round(f, precision) ==
    CASE precision \notin {"int:0", "int:2"} -> [kind |-> "TypeError", h |-> 0]
      [] f.kind # "fin" -> f
      [] precision = "int:2" -> f
      [] precision = "int:0" ->
            LET q    == f.h \div 100
                r    == f.h % 100
                up   == r > 50 \/ (r = 50 /\ q % 2 = 1)
            IN  [kind |-> "fin", h |-> 100 * (IF up THEN q + 1 ELSE q)]

\* except (ValueError, TypeError)
Caught == {"ValueError", "TypeError"}

\* TransformRegistry._to_int
ToInt(value, spec) ==
    IF value = None \/ value = ""
    THEN Ret(Kw(spec, "default"))
    ELSE LET f == Float(value)
         IN  IF IsException(f)
             THEN IF f.kind \in Caught THEN Ret(Kw(spec, "default"))
                  ELSE Throw(f.kind)
             ELSE LET i == IntOf(f)
                  IN  IF i.raised /\ i.exc \in Caught
                      THEN Ret(Kw(spec, "default"))
                      ELSE i

\* TransformRegistry._to_float
ToFloat(value, spec) ==
    IF value = None \/ value = ""
    THEN Ret(Kw(spec, "default"))
    ELSE LET f == Float(value)
             g == IF IsException(f) \/ Kw(spec, "precision") = None THEN f
                  ELSE Round(f, Kw(spec, "precision"))
         IN  IF IsException(g)
             THEN IF g.kind \in Caught THEN Ret(Kw(spec, "default"))
                  ELSE Throw(g.kind)
             ELSE Ret(FloatValue(g))

\* str(value): a str is itself, None is "None".
Str(v) ==
    CASE v = "int:7"   -> "7"
      [] v = BigInt    -> "10**400"
      [] v = "list:[]" -> "[]"
      [] OTHER         -> v

\* A lookup that passes the value through when the table lacks it.
LookupPassThrough(value, spec) ==
    IF "table" \notin DOMAIN spec
    THEN Ret(Kw(spec, "default"))
    ELSE IF Str(value) \in DOMAIN spec.table
         THEN Ret(spec.table[Str(value)])
         ELSE Ret(value)

\* TransformRegistry._lookup
Lookup(value, spec) ==
    IF "table" \notin DOMAIN spec
    THEN Ret(Kw(spec, "default"))
    ELSE IF Str(value) \in DOMAIN spec.table
         THEN Ret(spec.table[Str(value)])
         ELSE Ret(Kw(spec, "default"))

\* A format string is a sequence of parts: a literal text, a named
\* replacement field {name}, an automatically numbered field {}, or a single
\* brace that opens no field.
Lit(text) == [kind |-> "lit", s |-> text]

Field(name) == [kind |-> "field", s |-> name]

Positional == [kind |-> "pos", s |-> ""]

OpenBrace == [kind |-> "open", s |-> "{"]

\* The text of the template as written.
RECURSIVE RawTemplate(_)
RawTemplate(parts) ==
    IF parts = <<>> THEN ""
    ELSE LET part == Head(parts)
             text == CASE part.kind = "lit"   -> part.s
                       [] part.kind = "field" -> "{" \o part.s \o "}"
                       [] part.kind = "pos"   -> "{}"
                       [] part.kind = "open"  -> "{"
         IN  text \o RawTemplate(Tail(parts))

\* template.format(**named): the parts are rendered from left to right; a
\* name that is not given is a KeyError, a numbered field an IndexError (no
\* positional argument is passed), a single brace a ValueError.
RECURSIVE Format(_, _)
Format(parts, named) ==
    IF parts = <<>> THEN Ret("")
    ELSE LET part == Head(parts)
             this == CASE part.kind = "lit" -> Ret(part.s)
                       [] part.kind = "field" ->
                            IF part.s \in DOMAIN named
                            THEN Ret(Str(named[part.s]))
                            ELSE Throw("KeyError")
                       [] part.kind = "pos"  -> Throw("IndexError")
                       [] part.kind = "open" -> Throw("ValueError")
         IN  IF this.raised THEN this
             ELSE LET rest == Format(Tail(parts), named)
                  IN  IF rest.raised THEN rest ELSE Ret(this.val \o rest.val)

\* The keyword arguments of format: value=value, **kwargs.
Named(value, spec) ==
    [n \in (DOMAIN spec.params) \cup {"value"} |->
        IF n = "value" THEN value ELSE spec.params[n]]

\* TransformRegistry._template
Template(value, spec) ==
    LET r == Format(spec.template, Named(value, spec))
    IN  IF r.raised /\ r.exc \in {"KeyError", "ValueError"}
        THEN Ret(RawTemplate(spec.template))
        ELSE r

NoError == [exc |-> "none", msg |-> <<>>]

\* The exception a transform function raised, as the engine sees it.
Failure(r) == [exc |-> r.exc, msg |-> <<r.exc>>]

\* transform_func(value, **transform_config)
CallTransform(value, spec) ==
    CASE spec.type = "int"      -> ToInt(value, spec)
      [] spec.type = "float"    -> ToFloat(value, spec)
      [] spec.type = "lookup"   -> Lookup(value, spec)
      [] spec.type = "template" -> Template(value, spec)

\* apply that passes the value through when the name is not registered.
ApplyLenient(value, spec) ==
    IF spec.type \notin Registered
    THEN [raised |-> FALSE, val |-> value, err |-> NoError]
    ELSE LET r == CallTransform(value, spec)
         IN  [raised |-> r.raised, val |-> r.val,
              err |-> IF r.raised THEN Failure(r) ELSE NoError]

\* TransformRegistry.apply: get(type) raises ValueError for a name that is
\* not registered, else the function is called with the spec as keywords.
Apply(value, spec) ==
    IF spec.type \notin Registered
    THEN [raised |-> TRUE, val |-> None,
          err |-> [exc |-> "ValueError",
                   msg |-> <<"Unknown transform", spec.type, "Available">>
                            \o Builtin]]
    ELSE LET r == CallTransform(value, spec)
         IN  [raised |-> r.raised, val |-> r.val,
              err |-> IF r.raised THEN Failure(r) ELSE NoError]

-----------------------------------------------------------------------------
(* mapping/engine.py: the transformer built by _build_transformer *)

\* Resolve without the check of required: a missing required value is
\* treated like any other missing value.
ResolveNoRequired(rule, rec) ==
    LET value == rec[rule.source]
    IN  IF value = None
        THEN [raised |-> FALSE, val |-> rule.default, err |-> NoError]
        ELSE [raised |-> FALSE, val |-> value, err |-> NoError]

\* Resolve without the substitution of the default.
ResolveNoDefault(rule, rec) ==
    LET value == rec[rule.source]
    IN  IF value = None /\ rule.required
        THEN [raised |-> TRUE, val |-> None,
              err |-> [exc |-> "MappingError",
                       msg |-> <<"Required field missing", rule.source>>]]
        ELSE [raised |-> FALSE, val |-> value, err |-> NoError]

\* value = record.get(source_path); a missing key and a None value are the
\* same to the transformer, so a record is a function on all source paths.
\* If value is None: required raises, otherwise value = rule.get('default').
Resolve(rule, rec) ==
    LET value == rec[rule.source]
    IN  IF value = None
        THEN IF rule.required
             THEN [raised |-> TRUE, val |-> None,
                   err |-> [exc |-> "MappingError",
                            msg |-> <<"Required field missing", rule.source>>]]
             ELSE [raised |-> FALSE, val |-> rule.default, err |-> NoError]
        ELSE [raised |-> FALSE, val |-> value, err |-> NoError]

\* Lines 177-180: the transform is applied to a value that is not None.
Transformed(rule, value) ==
    IF value # None /\ rule.transform.type # "none"
    THEN Apply(value, rule.transform)
    ELSE [raised |-> FALSE, val |-> value, err |-> NoError]

\* The loop "for rule in rules" from rule i on; doc is result so far.  at is
\* the index of the rule that raised (0 when none did).
RECURSIVE ApplyRules(_, _, _, _, _)
ApplyRules(rules, i, rec, doc, h) ==
    IF i > Len(rules)
    THEN [ok |-> TRUE, doc |-> doc, heap |-> h, err |-> NoError, at |-> 0]
    ELSE LET rule == rules[i]
             r    == Resolve(rule, rec)
             tv   == Transformed(rule, r.val)
         IN  IF r.raised
             THEN [ok |-> FALSE, doc |-> doc, heap |-> h, err |-> r.err,
                   at |-> i]
             ELSE IF tv.raised
             THEN [ok |-> FALSE, doc |-> doc, heap |-> h, err |-> tv.err,
                   at |-> i]
             ELSE IF tv.val = None
             THEN ApplyRules(rules, i + 1, rec, doc, h)
             ELSE LET w == SetNested(doc, h, rule.target, tv.val)
                  IN  IF w.ok
                      THEN ApplyRules(rules, i + 1, rec, w.doc, w.heap)
                      ELSE [ok |-> FALSE, doc |-> w.doc, heap |-> w.heap,
                            err |-> [exc |-> "TypeError",
                                     msg |-> <<"not a mapping">>],
                            at |-> i]

\* transform(record): result = {} and the loop over the rules.
Transform(rules, rec, h) == ApplyRules(rules, 1, rec, EmptyTree, h)

-----------------------------------------------------------------------------
(* Direct calls of the transform functions *)

NoCall == [fn |-> "none", value |-> None, spec |-> [type |-> "none"]]

NoResult == [raised |-> FALSE, val |-> None, exc |-> "pending"]

\* No transform function is being called directly.
TransformIdle == tcall = NoCall /\ tres = NoResult

-----------------------------------------------------------------------------
(* connectors/isa95.py: ISA95Connector *)

\* An XML element: tag (the local name), the stripped text ("" when there
\* is none or only white space), the attributes, the children in order.
Elem(tag, text, attrib, children) ==
    [tag |-> tag, text |-> text, attrib |-> attrib, children |-> children]

NoAttrib == [a \in {} |-> ""]

NoElem == Elem("", "", NoAttrib, <<>>)

NoDoc == [wellFormed |-> FALSE, root |-> NoElem, rootElement |-> ""]

\* ISA95Connector.parse is not running.
Isa95Idle ==
    /\ xdoc = NoDoc
    /\ xpc = "idle"
    /\ xelements = <<>>
    /\ xyielded = <<>>
    /\ xerror = "none"

\* record.get(key): None when the record has no such key.
RecordGet(record, key) == IF key \in DOMAIN record THEN record[key] ELSE None

\* if prop_id and prop_value
Truthy(v) == v # None /\ v # ""

\* for attr, value in elem.attrib.items(): record[f"{path}/@{attr}"] = value
StoreAttributes(record, path, attrib) ==
    [k \in (DOMAIN record) \cup {path \o "/@" \o a : a \in DOMAIN attrib} |->
        IF \E a \in DOMAIN attrib : k = path \o "/@" \o a
        THEN attrib[CHOOSE a \in DOMAIN attrib : k = path \o "/@" \o a]
        ELSE record[k]]

\* _parse_recursive: the record after elem has been parsed under prefix.
RECURSIVE ParseRecursive(_, _, _)
RECURSIVE ParseChildren(_, _, _)
ParseRecursive(elem, record, prefix) ==
    LET tag  == elem.tag
        path == IF prefix # "" THEN prefix \o "/" \o tag ELSE tag
        r1   == IF elem.text # "" THEN Put(record, path, elem.text) ELSE record
        r2   == StoreAttributes(r1, path, elem.attrib)
        r3   == ParseChildren(elem.children, r2, path)
    IN  IF tag = "Property"
        THEN LET prop_id    == RecordGet(r3, path \o "/ID")
                 prop_value == RecordGet(r3, path \o "/Value")
             IN  IF Truthy(prop_id) /\ Truthy(prop_value)
                 THEN Put(r3, prefix \o "/Property[@ID='" \o prop_id
                                  \o "']/Value", prop_value)
                 ELSE r3
        ELSE r3

\* for child in elem: self._parse_recursive(child, record, path)
ParseChildren(children, record, path) ==
    IF children = <<>> THEN record
    ELSE ParseChildren(Tail(children),
                       ParseRecursive(Head(children), record, path), path)

\* _to_record
ToRecord(element) == ParseRecursive(element, [k \in {} |-> ""], "")

\* root.findall(".//tag"): the descendants of root with that tag, in
\* document order; root itself is not among them.  (The namespace of the
\* root is detected and tried first; the model's documents have all their
\* elements in one namespace, so both searches find the same elements.)
RECURSIVE Descendants(_)
RECURSIVE DescendantsOfAll(_)
Descendants(elem) == DescendantsOfAll(elem.children)

DescendantsOfAll(children) ==
    IF children = <<>> THEN <<>>
    ELSE <<Head(children)>> \o Descendants(Head(children))
            \o DescendantsOfAll(Tail(children))

\* _find_elements
FindElements(root, tag) ==
    SelectSeq(Descendants(root), LAMBDA e : e.tag = tag)

-----------------------------------------------------------------------------
(* models/registry.py: the schema registry *)

\* A name as a caller writes it: a sequence of runs of letters, each run
\* written in lower or in upper case ("Dpp" is <<Run("d", TRUE),
\* Run("pp", FALSE)>>).
Run(text, upper) == [text |-> text, upper |-> upper]

LowerCase(text) == <<Run(text, FALSE)>>

UpperCase(text) == <<Run(text, TRUE)>>

\* As Lower, but the name is kept as it is written.
RECURSIVE Verbatim(_)
Verbatim(name) ==
    IF name = <<>> THEN ""
    ELSE (IF Head(name).upper THEN "^" ELSE "") \o Head(name).text
         \o Verbatim(Tail(name))

\* name.lower(): the string in lower case.
RECURSIVE Lower(_)
Lower(name) ==
    IF name = <<>> THEN "" ELSE Head(name).text \o Lower(Tail(name))

NoSchemas == [k \in {} |-> None]

\* table[key] = value
Store(table, key, value) ==
    [k \in (DOMAIN table) \cup {key} |-> IF k = key THEN value ELSE table[k]]

\* _auto_register_schemas: the register calls of module load, in order.
\* Each import either succeeds or raises ImportError, which is passed over.
AutoRegister(dppImports, batteryImports) ==
    (IF dppImports
     THEN <<[name |-> LowerCase("dpp"), schema |-> "DigitalProductPassport",
             at |-> "load"],
            [name |-> LowerCase("digital_product_passport"),
             schema |-> "DigitalProductPassport", at |-> "load"]>>
     ELSE <<>>)
    \o (IF batteryImports
        THEN <<[name |-> LowerCase("battery_passport"),
                schema |-> "BatteryPassport", at |-> "load"],
               [name |-> LowerCase("battery_pass"),
                schema |-> "BatteryPassport", at |-> "load"]>>
        ELSE <<>>)

\* The table after the register calls of a list, none of them with a
\* context.
RECURSIVE RegisterAll(_, _)
RegisterAll(table, calls) ==
    IF calls = <<>> THEN table
    ELSE RegisterAll(Store(table, Lower(Head(calls).name), Head(calls).schema),
                     Tail(calls))

NoRegistryCall ==
    [op |-> "none", name |-> <<>>, raised |-> FALSE, val |-> None,
     exc |-> "none", names |-> {}]

RegistryRet(op, name, v) ==
    [op |-> op, name |-> name, raised |-> FALSE, val |-> v, exc |-> "none",
     names |-> {}]

\* The exception names the schemas available.
RegistryThrow(op, name, e, available) ==
    [op |-> op, name |-> name, raised |-> TRUE, val |-> None, exc |-> e,
     names |-> available]

\* The module is loaded (each of the two imports has succeeded or not) and
\* no call has been made.
RegistryLoaded(dppImports, batteryImports) ==
    /\ registered = AutoRegister(dppImports, batteryImports)
    /\ schemas = RegisterAll(NoSchemas, registered)
    /\ contexts = NoSchemas
    /\ rres = NoRegistryCall

\* No call of the registry is going on; both imports have succeeded.
RegistryIdle == RegistryLoaded(TRUE, TRUE)

\* get_schema(name), lines 48-58.
GetSchemaOf(table, op, name) ==
    IF Lower(name) \notin DOMAIN table
    THEN RegistryThrow(op, name, "SchemaNotFoundError", DOMAIN table)
    ELSE RegistryRet(op, name, table[Lower(name)])

\* schema.model_validate(data) of a pydantic model: the schema classes of
\* the model accept a document exactly when it has the field "a".
Conforms(schema, data) == "a" \in DOMAIN data.fields

\* validate(name, data), lines 89-91.
ValidateOf(table, name, data) ==
    LET s == GetSchemaOf(table, "validate", name)
    IN  IF s.raised THEN s
        ELSE IF Conforms(s.val, data)
             THEN RegistryRet("validate", name, s.val)
             ELSE RegistryThrow("validate", name, "pydantic.ValidationError",
                                {})

-----------------------------------------------------------------------------
(* exporters/jsonld.py: the JSON-LD exporter *)

\* A dict and a pydantic model instance, each with its keys or fields.
Dict(fields) == [class |-> "dict", fields |-> fields]

Model(fields) == [class |-> "BaseModel", fields |-> fields]

\* What jsonld.compact returns is decided by PyLD; the model keeps the
\* document it was given and marks it.
Compacted(doc) == [class |-> "compacted", fields |-> doc.fields]

DefaultContext == "DEFAULT_CONTEXT"

\* __init__, line 45: context or DEFAULT_CONTEXT
ContextOf(context) ==
    IF context \in {None, EmptyDict} THEN DefaultContext ELSE context

\* item.model_dump(mode='json', exclude_none=True) for a model instance, the
\* item itself otherwise.
AsDict(item) ==
    IF item.class = "BaseModel"
    THEN Dict(Restrict(item.fields,
                       {k \in DOMAIN item.fields : item.fields[k] # None}))
    ELSE item

\* A file: nothing written, one JSON document, or a JSON list.
NotWritten == [kind |-> "none", doc |-> Dict(NoSchemas), list |-> <<>>]

WrittenDoc(doc) == [kind |-> "document", doc |-> doc, list |-> <<>>]

WrittenList(docs) == [kind |-> "list", doc |-> Dict(NoSchemas), list |-> docs]

\* As Export, but an exception of jsonld.compact is not caught: nothing is
\* returned and nothing is written.
ExportUncaught(context, data, output, compact, pyld) ==
    LET plain == Dict(Store(AsDict(data).fields, "@context", context))
        doc == IF compact /\ pyld = "compacts" THEN Compacted(plain)
               ELSE plain
    IN  IF compact /\ pyld = "raises"
        THEN [doc |-> Dict(NoSchemas), written |-> NotWritten,
              data |-> IF data.class = "BaseModel" THEN <<data>>
                       ELSE <<plain>>]
        ELSE [doc |-> doc,
              written |-> IF output THEN WrittenDoc(doc) ELSE NotWritten,
              data |-> IF data.class = "BaseModel" THEN <<data>>
                       ELSE <<plain>>]

\* export(data, output_path, compact), lines 64-87, with PyLD absent,
\* raising in compact, or compacting: the document returned, the file, and
\* data as the call leaves it (a dict is given the key "@context" in place).
Export(context, data, output, compact, pyld) ==
    LET plain == Dict(Store(AsDict(data).fields, "@context", context))
        doc == IF compact /\ pyld = "compacts" THEN Compacted(plain)
               ELSE plain
    IN  [doc |-> doc,
         written |-> IF output THEN WrittenDoc(doc) ELSE NotWritten,
         data |-> IF data.class = "BaseModel" THEN <<data>> ELSE <<plain>>]

\* export_list(items, output_path), lines 105-122.
ExportList(context, items, output) ==
    LET graph == [i \in DOMAIN items |-> AsDict(items[i])]
        doc == [k \in {"@context", "@graph"} |->
                   IF k = "@context" THEN context ELSE graph]
    IN  [doc |-> Dict(doc),
         written |-> IF output THEN WrittenDoc(Dict(doc)) ELSE NotWritten,
         data |-> items]

NoExportCall ==
    [fn |-> "none", context |-> None, items |-> <<>>, output |-> FALSE,
     compact |-> FALSE, pyld |-> "absent"]

NoExportResult ==
    [called |-> FALSE, doc |-> Dict(NoSchemas), written |-> NotWritten,
     data |-> <<>>]

\* No direct call of the exporter is going on.
ExportIdle == ecall = NoExportCall /\ eres = NoExportResult

-----------------------------------------------------------------------------
(* core/bridge.py: DPPBridge.transform *)

NoBridgeCall ==
    [arg |-> "none", config |-> NoSchemas, validate |-> FALSE,
     output |-> FALSE, executes |-> <<>>, fails |-> FALSE,
     pyld |-> "absent"]

NoBridgeOutcome == [kind |-> "none", docs |-> <<>>, exc |-> "none"]

\* No DPPBridge.transform call is going on.
BridgeIdle ==
    /\ bcfg = NoBridgeCall
    /\ bpc = "idle"
    /\ bresults = <<>>
    /\ bnext = 0
    /\ blog = <<>>
    /\ bwritten = NotWritten
    /\ bout = NoBridgeOutcome

\* d.get(key, default)
GetOr(d, key, default) == IF key \in DOMAIN d THEN d[key] ELSE default

\* Lines 76-78: the schema name the records are validated against, the
\* empty string when the guards of these lines let validation pass.
SchemaName(config) ==
    IF "target" \in DOMAIN config
    THEN GetOr(config["target"], "schema", <<>>)
    ELSE <<>>

\* Line 88: mapping_config.get('target', {}).get('format', 'jsonld')
OutputFormat(config) ==
    GetOr(GetOr(config, "target", NoSchemas), "format", "jsonld")

\* Lines 87-98 for an output path: the file written and the list results
\* as the export leaves it.  The exporter of the bridge is JSONLDExporter().
ExportResults(config, res, pyld) ==
    IF OutputFormat(config) \in {"jsonld", "json-ld"}
    THEN IF Len(res) = 1
         THEN LET e == Export(ContextOf(None), res[1], TRUE, TRUE, pyld)
              IN  [docs |-> e.data, written |-> e.written]
         ELSE [docs |-> res,
               written |-> ExportList(ContextOf(None), res, TRUE).written]
    ELSE [docs |-> res, written |-> WrittenList(res)]

\* As Swallowed, but a schema that is not registered is let through.
SwallowedIfInvalid(exc) == exc = "pydantic.ValidationError"

\* Line 82: except Exception
Swallowed(exc) == TRUE

-----------------------------------------------------------------------------
(* connectors/csv_connector.py: CSVConnector *)

\* config.csv_delimiter
DefaultDelimiter == ","

\* self.delimiter = delimiter or config.csv_delimiter
DelimiterOf(delimiter) ==
    IF delimiter = None THEN DefaultDelimiter ELSE delimiter

\* A file is a sequence of lines, a line a sequence of tokens: pieces of text
\* and single characters.  A field is the sequence of the tokens between two
\* delimiters.
RECURSIVE SplitLine(_, _)
SplitLine(line, d) ==
    IF \A i \in DOMAIN line : line[i] # d
    THEN <<line>>
    ELSE LET i == CHOOSE x \in DOMAIN line :
                      line[x] = d /\ \A y \in 1..(x - 1) : line[y] # d
         IN  <<SubSeq(line, 1, i - 1)>>
                 \o SplitLine(SubSeq(line, i + 1, Len(line)), d)

\* The row csv.reader gives for a line: no field at all for a blank line.
Row(line, d) == IF line = <<>> THEN <<>> ELSE SplitLine(line, d)

\* str.strip()
RECURSIVE Strip(_)
Strip(f) ==
    IF f # <<>> /\ Head(f) = " " THEN Strip(Tail(f))
    ELSE IF f # <<>> /\ f[Len(f)] = " "
    THEN Strip(SubSeq(f, 1, Len(f) - 1))
    ELSE f

\* The value csv.DictReader gives to a column the row has no field for.
Restval == <<None>>

SniffError == "csv.Error"

\* csv.Sniffer().sniff(sample).delimiter for the files of the model, whose
\* lines have at most one "," or ";" each and never both: the character that
\* every line of the sample has, "t" for a sample of title lines, and
\* csv.Error for an empty sample and for lines that have no character in
\* common.
Sniff(sample) ==
    LET Has(c) == \A i \in DOMAIN sample :
                      \E j \in DOMAIN sample[i] : sample[i][j] = c
    IN  IF sample = <<>> THEN SniffError
        ELSE IF Has(",") THEN ","
        ELSE IF Has(";") THEN ";"
        ELSE IF Has("t") THEN "t"
        ELSE SniffError

NoCsvError == "none"

\* clean_row of a row under the header: the keys and the values stripped, a
\* later column of the same name winning.
CleanRow(header, row) ==
    LET keys == {Strip(header[i]) : i \in DOMAIN header}
        Last(k) == CHOOSE i \in DOMAIN header :
                       /\ Strip(header[i]) = k
                       /\ \A j \in DOMAIN header :
                              Strip(header[j]) = k => j <= i
    IN  [k \in keys |-> IF Last(k) <= Len(row) THEN Strip(row[Last(k)])
                        ELSE Restval]

\* The loop over csv.DictReader(f, delimiter=d) from row i of rows on.  The
\* first row that is not blank is the header.  A row longer than the header
\* has its surplus under the key None, and k.strip() raises AttributeError
\* on it, which parse raises as ConnectorError.
RECURSIVE ReadRows(_, _, _, _)
ReadRows(header, rows, i, yielded) ==
    IF i > Len(rows)
    THEN [yielded |-> yielded, error |-> NoCsvError]
    ELSE IF Len(rows[i]) > Len(header)
    THEN [yielded |-> yielded, error |-> "ConnectorError: Failed to parse CSV"]
    ELSE ReadRows(header, rows, i + 1,
                  Append(yielded, CleanRow(header, rows[i])))

DictRead(lines, d) ==
    LET all  == [i \in DOMAIN lines |-> Row(lines[i], d)]
        rows == SelectSeq(all, LAMBDA r : r # <<>>)
    IN  IF rows = <<>>
        THEN [yielded |-> <<>>, error |-> NoCsvError]
        ELSE ReadRows(Head(rows), Tail(rows), 1, <<>>)

\* A file that exists, and the path at which there is no file.
CsvFile(lines) == [kind |-> "file", lines |-> lines]

MissingFile == [kind |-> "missing", lines |-> <<>>]

\* The whole of parse, iterated to its end by an instance whose
\* self.delimiter is delimiter: what it yields, what it raises, and
\* self.delimiter afterwards.  next(f) on a file that has no line left
\* raises StopIteration, which the except clause turns into ConnectorError.
\* When the delimiter is ",", the sample is read from the position after the
\* skipped lines, f.seek(0) goes back to the start of the file, and the
\* sniffed delimiter is stored in the instance.
Parse(delimiter, skip_rows, f) ==
    IF f = MissingFile
    THEN [delimiter |-> delimiter, yielded |-> <<>>,
          error |-> "ConnectorError: CSV file not found"]
    ELSE IF skip_rows > Len(f.lines)
    THEN [delimiter |-> delimiter, yielded |-> <<>>,
          error |-> "ConnectorError: Failed to parse CSV"]
    ELSE LET rest    == SubSeq(f.lines, skip_rows + 1, Len(f.lines))
             sniffed == IF delimiter = "," THEN Sniff(rest) ELSE SniffError
             d       == IF sniffed # SniffError THEN sniffed ELSE delimiter
             lines   == IF delimiter = "," THEN f.lines ELSE rest
             r       == DictRead(lines, d)
         IN  [delimiter |-> d, yielded |-> r.yielded, error |-> r.error]

NoCsvArgs == [delimiter |-> None, skip_rows |-> 0]

NoCsvSource == [kind |-> "none", lines |-> <<>>]

\* No CSVConnector is in use.
CsvIdle ==
    /\ csvArgs = NoCsvArgs
    /\ csvDelimiter = DefaultDelimiter
    /\ csvSource = NoCsvSource
    /\ csvYielded = <<>>
    /\ csvError = NoCsvError

-----------------------------------------------------------------------------
(* The inputs: mapping configurations, mapping files, sources *)

Rule(src, tgt, req, dflt, tr) ==
    [source |-> src, target |-> tgt, required |-> req, default |-> dflt,
     transform |-> tr]

RuleSet ==
    { Rule("s1", <<"a", "b">>, TRUE, None, NoTransform),
      Rule("s2", <<"a", "c">>, FALSE, "dflt", NoTransform),
      Rule("s2", <<"a">>, FALSE, "@D", NoTransform),
      Rule("s1", <<"a", "c">>, FALSE, "N/A",
           [type |-> "int", table |-> EmptyTable, default |-> None]),
      Rule("s1", <<"d">>, FALSE, None,
           [type |-> "bogus", table |-> EmptyTable, default |-> None]),
      Rule("s1", <<"a">>, FALSE, None,
           [type |-> "lookup", table |-> [v \in {"12.7"} |-> "@T"],
            default |-> None]),
      Rule("s1", <<"a", "b", "c">>, FALSE, None, NoTransform) }

SeqsUpTo(S, n) == UNION {[1..m -> S] : m \in 0..n}

Injective(f) == \A i, j \in DOMAIN f : f[i] = f[j] => i = j

\* The rule lists: up to MaxRules different rules, in any order.
RuleLists == {l \in SeqsUpTo(RuleSet, MaxRules) : Injective(l)}

\* One parsed source unit (DataRecord.data): the value at each source path,
\* None when the record has no such key.
Records == {r \in [{"s1", "s2"} -> {None, "12.7", "abc"}] :
                r["s1"] \in {None, "12.7"} /\ r["s2"] \in {None, "abc"}}

\* A source file: the records the connector yields from it and whether the
\* connector then raises (a malformed row or element after them) instead of
\* ending.
Sources == [recs : SeqsUpTo(Records, MaxRecords), bad : BOOLEAN]

NoMapping == [connector |-> "none", rules |-> <<>>]

Mappings == [connector : {"csv"}, rules : RuleLists]

\* A mapping file: missing, not YAML, YAML of the wrong shape, or a valid
\* mapping.
NoFile == [status |-> "none", content |-> NoMapping]

Files ==
    {[status |-> st, content |-> NoMapping] :
        st \in {"missing", "syntax", "invalid"}}
    \cup {[status |-> "ok", content |-> m] :
            m \in {x \in Mappings : Len(x.rules) <= 1}}

NoOutcome == [kind |-> "none", docs |-> <<>>, err |-> NoError, at |-> 0]

\* What a failing source yields is never handed to the transformer, so the
\* failing sources are paired with the short rule lists only.
InitCommon ==
    /\ TransformIdle
    /\ Isa95Idle
    /\ RegistryIdle
    /\ BridgeIdle
    /\ ExportIdle
    /\ CsvIdle
    /\ source \in Sources
    /\ source.bad => Len(mapping.rules) <= 1
    /\ heap = HeapInit
    /\ pc = "idle"
    /\ call = 0
    /\ connector = FALSE
    /\ records = <<>>
    /\ results = <<>>
    /\ applied = 0
    /\ outcome = NoOutcome
    /\ first = NoOutcome

\* The mapping is passed as a dict.
InitDict ==
    /\ api = "execute"
    /\ mappingArg = "dict"
    /\ file = NoFile
    /\ mapping \in Mappings
    /\ InitCommon

\* The mapping is passed as the path of a file.
InitPath ==
    /\ api \in {"execute", "bridge"}
    /\ mappingArg = "path"
    /\ file \in Files
    /\ mapping = NoMapping
    /\ InitCommon

\* A configuration dict without the key 'source', one whose source section
\* has no key 'connector', and one that names a connector the factory does
\* not know.
NoSourceKey == "<no key 'source'>"

NoConnectorKey == "<no key 'connector'>"

Misconfigured ==
    [connector : {NoSourceKey, NoConnectorKey, "sap"}, rules : {<<>>}]

InitMisconfigured ==
    /\ api = "execute"
    /\ mappingArg = "dict"
    /\ file = NoFile
    /\ mapping \in Misconfigured
    /\ InitCommon
    /\ source.recs = <<>> /\ ~source.bad

\* The step-wise pipeline of the bridge, with the mapping as a dict:
\* DPPBridge.map(DPPBridge.extract(source, connector), mapping).
InitStepwise ==
    /\ api = "stepwise"
    /\ mappingArg = "dict"
    /\ file = NoFile
    /\ mapping \in {m \in Mappings : Len(m.rules) <= 1}
    /\ InitCommon

\* A required rule that carries a transform: int, of a source that holds
\* "abc" in some records.
RequiredWithTransform ==
    [connector |-> "csv",
     rules |-> <<Rule("s2", <<"e">>, TRUE, None,
                      [type |-> "int", table |-> EmptyTable,
                       default |-> None])>>]

InitRequiredWithTransform ==
    /\ api = "execute"
    /\ mappingArg = "dict"
    /\ file = NoFile
    /\ mapping = RequiredWithTransform
    /\ InitCommon

Init ==
    \/ InitDict
    \/ InitPath
    \/ InitMisconfigured
    \/ InitRequiredWithTransform

-----------------------------------------------------------------------------
(* What a caller sees of a document: references followed *)

Range(f) == {f[x] : x \in DOMAIN f}

Graft(t, p, sub) ==
    LET base == Restrict(t, (DOMAIN t) \ {p})
    IN  IF DOMAIN sub = {}
        THEN Put(base, p, EmptyDict)
        ELSE [x \in (DOMAIN base) \cup {p \o q : q \in DOMAIN sub} |->
                IF x \in DOMAIN base THEN base[x]
                ELSE sub[SubSeq(x, Len(p) + 1, Len(x))]]

RECURSIVE Deref(_, _, _)
Deref(t, h, fuel) ==
    LET refs == {p \in DOMAIN t : IsRef(t[p])}
    IN  IF refs = {} \/ fuel = 0
        THEN t
        ELSE LET p == CHOOSE x \in refs : TRUE
             IN  Deref(Graft(t, p, h[t[p]]), h, fuel - 1)

\* The value of document t while the containers hold h.
DocValue(t, h) == Deref(t, h, Cardinality(Objs) * Cardinality(DOMAIN t) + 1)

\* The value at path p of a dict value (None when there is nothing at p;
\* "{...}" stands for any non-empty dict).
Get(v, p) ==
    IF p \in DOMAIN v THEN v[p]
    ELSE IF \E x \in DOMAIN v : IsPrefix(p, x) THEN "{...}"
    ELSE None

Observe(o, h) ==
    [kind |-> o.kind, docs |-> [i \in 1..Len(o.docs) |-> DocValue(o.docs[i], h)],
     err |-> o.err, at |-> o.at]

-----------------------------------------------------------------------------
(* mapping/loader.py: MappingLoader.load *)

\* Load without validation (what load_raw does): whatever the file holds is
\* returned.
LoadUnvalidated(f) ==
    IF f.status = "missing"
    THEN [ok |-> FALSE, mapping |-> NoMapping,
          err |-> [exc |-> "MappingError", msg |-> <<"Mapping file not found">>]]
    ELSE [ok |-> TRUE, mapping |-> f.content, err |-> NoError]

Load(f) ==
    CASE f.status = "missing" ->
            [ok |-> FALSE, mapping |-> NoMapping,
             err |-> [exc |-> "MappingError", msg |-> <<"Mapping file not found">>]]
      [] f.status = "syntax" ->
            [ok |-> FALSE, mapping |-> NoMapping,
             err |-> [exc |-> "MappingError", msg |-> <<"YAML syntax error">>]]
      [] f.status = "invalid" ->
            [ok |-> FALSE, mapping |-> NoMapping,
             err |-> [exc |-> "MappingError", msg |-> <<"Invalid mapping file">>]]
      [] f.status = "ok" ->
            [ok |-> TRUE, mapping |-> f.content, err |-> NoError]

-----------------------------------------------------------------------------
(* The calls *)

Raised(e, i) == [kind |-> "raised", docs |-> <<>>, err |-> e, at |-> i]

Finished == pc \in {"returned", "raised"}

\* A second call passes the same mapping dict and the same source to the
\* same engine.  (With a path every call loads a fresh configuration.)
CanBegin ==
    IF pc = "idle" THEN TRUE
    ELSE Finished /\ call < MaxCalls /\ mappingArg = "dict"

BeginCall ==
    /\ CanBegin
    /\ call' = call + 1
    /\ first' = IF call = 1 THEN Observe(outcome, heap) ELSE first
    /\ pc' = "start"
    /\ connector' = FALSE
    /\ records' = <<>>
    /\ results' = <<>>
    /\ applied' = 0
    /\ outcome' = NoOutcome
    /\ UNCHANGED <<others, api, mappingArg, file, mapping, source, heap>>

\* loader.load(mapping) and what follows from its result.
LoadStep ==
    LET l == Load(file)
    IN  /\ IF l.ok
           THEN /\ mapping' = l.mapping
                /\ pc' = "connect"
                /\ outcome' = outcome
           ELSE /\ mapping' = mapping
                /\ pc' = "raised"
                /\ outcome' = Raised(l.err, 0)
        /\ UNCHANGED <<others, api, mappingArg, file, source, heap, call, connector,
                       records, results, applied, first>>

\* DPPBridge.transform, lines 66-73: the bridge loads the file and passes
\* the dict to engine.execute.
BridgeLoad ==
    /\ pc = "start" /\ api = "bridge" /\ mappingArg = "path"
    /\ LoadStep

\* MappingEngine.execute, lines 46-47.
ExecuteLoad ==
    /\ pc = "start" /\ api = "execute" /\ mappingArg = "path"
    /\ LoadStep

\* MappingEngine.execute, line 46 with a dict: nothing to load.
ExecuteDict ==
    /\ pc = "start" /\ mappingArg = "dict"
    /\ pc' = "connect"
    /\ UNCHANGED <<others, api, mappingArg, file, mapping, source, heap, call,
                   connector, records, results, applied, outcome, first>>

KnownConnectors == {"isa95", "csv", "excel"}

\* MappingEngine.execute, lines 54-60: the source section and its
\* connector are looked up (KeyError when the key is missing), then
\* ConnectorFactory.create (ValueError for a name it does not know).
CreateConnector ==
    /\ pc = "connect"
    /\ IF mapping.connector \in {NoSourceKey, NoConnectorKey}
       THEN /\ connector' = FALSE
            /\ pc' = "raised"
            /\ outcome' = Raised([exc |-> "KeyError",
                                  msg |-> <<mapping.connector>>], 0)
       ELSE IF mapping.connector \in KnownConnectors
       THEN /\ connector' = TRUE
            /\ pc' = "parse"
            /\ outcome' = outcome
       ELSE /\ connector' = FALSE
            /\ pc' = "raised"
            /\ outcome' = Raised([exc |-> "ValueError",
                                  msg |-> <<"Unknown connector type">>], 0)
    /\ UNCHANGED <<others, api, mappingArg, file, mapping, source, heap, call,
                   records, results, applied, first>>

\* list(connector.parse(source_file)) takes the next record.
ParseNext ==
    /\ pc = "parse"
    /\ Len(records) < Len(source.recs)
    /\ records' = Append(records, source.recs[Len(records) + 1])
    /\ UNCHANGED <<others, api, mappingArg, file, mapping, source, heap, pc, call,
                   connector, results, applied, outcome, first>>

\* The connector has no more records: it ends, or it raises ConnectorError
\* (every connector wraps what its parsing raises).
ParseEnd ==
    /\ pc = "parse"
    /\ Len(records) = Len(source.recs)
    /\ IF source.bad
       THEN /\ pc' = "raised"
            /\ outcome' = Raised([exc |-> "ConnectorError",
                                  msg |-> <<"Failed to parse">>], 0)
       ELSE /\ pc' = "transform"
            /\ outcome' = outcome
    /\ UNCHANGED <<others, api, mappingArg, file, mapping, source, heap, call,
                   connector, records, results, applied, first>>

\* The loop running on the connector's iterator instead of the list: a
\* record is transformed as soon as it has been yielded.
CanTransformStreaming(at) == at \in {"parse", "transform"}

\* Line 63 comes before the loop of line 70: the loop runs on the finished
\* list.
CanTransform(at) == at = "transform"

\* Collect at the front: results.insert(0, transformed).
CollectFront(res, doc) == <<doc>> \o res

\* results.append(transformed)
Collect(res, doc) == Append(res, doc)

\* The loop without its except clause: what the transformer raises leaves
\* execute as it is.
Unwrapped(e) == e

\* except Exception as e: raise MappingError(f"Transformation failed: {e}")
Wrap(e) == [exc |-> "MappingError", msg |-> <<"Transformation failed">> \o e.msg]

\* One turn of the loop of lines 70-75 of engine.py, which wraps what the
\* transformer raises; in the step-wise pipeline, one turn of the list
\* comprehension of bridge.py, line 150, which does not.
TransformNext ==
    /\ CanTransform(pc)
    /\ Len(results) < Len(records)
    /\ LET t == Transform(mapping.rules, records[Len(results) + 1], heap)
       IN  /\ heap' = t.heap
           /\ applied' = applied + 1
           /\ IF t.ok
              THEN /\ results' = Collect(results, t.doc)
                   /\ pc' = pc
                   /\ outcome' = outcome
              ELSE /\ results' = results
                   /\ pc' = "raised"
                   /\ outcome' = Raised(IF api = "stepwise" THEN t.err
                                         ELSE Wrap(t.err), t.at)
    /\ UNCHANGED <<others, api, mappingArg, file, mapping, source, call, connector,
                   records, first>>

\* return results
Return ==
    /\ pc = "transform"
    /\ Len(results) = Len(records)
    /\ pc' = "returned"
    /\ outcome' = [kind |-> "returned", docs |-> results, err |-> NoError,
                   at |-> 0]
    /\ UNCHANGED <<others, api, mappingArg, file, mapping, source, heap, call,
                   connector, records, results, applied, first>>

Next ==
    \/ BeginCall
    \/ BridgeLoad
    \/ ExecuteLoad
    \/ ExecuteDict
    \/ CreateConnector
    \/ ParseNext
    \/ ParseEnd
    \/ TransformNext
    \/ Return

Spec == Init /\ [][Next]_vars

\* The step-wise pipeline: extract creates the connector and parses the
\* source, map builds the transformer and applies it to the records.
NextStepwise ==
    \/ BeginCall
    \/ ExecuteDict
    \/ CreateConnector
    \/ ParseNext
    \/ ParseEnd
    \/ TransformNext
    \/ Return

SpecStepwise == InitStepwise /\ [][NextStepwise]_vars

-----------------------------------------------------------------------------
(* mapping/transforms.py: the transform functions called directly *)

\* No run of the mapping engine is going on.
EngineIdle ==
    /\ api = "execute"
    /\ mappingArg = "dict"
    /\ file = NoFile
    /\ mapping = NoMapping
    /\ source = [recs |-> <<>>, bad |-> FALSE]
    /\ heap = HeapInit
    /\ pc = "idle"
    /\ call = 0
    /\ connector = FALSE
    /\ records = <<>>
    /\ results = <<>>
    /\ applied = 0
    /\ outcome = NoOutcome
    /\ first = NoOutcome

\* The input values: None, the empty string, strings that are numbers,
\* a string that is none, the special numeric strings, values that are not
\* strings.
TValues ==
    {None, "", "123.45", "-7.9", "12.7", "2.5", "abc", "inf", "nan"}
        \cup NonStrings

TDefaults == {None, "int:0", "N/A"}

TPrecisions == {None, "int:0", "int:2", "abc"}

IntCalls ==
    {[fn |-> "int", value |-> v, spec |-> [type |-> "int", default |-> d]] :
        v \in TValues, d \in TDefaults}

FloatCalls ==
    {[fn |-> "float", value |-> v,
      spec |-> [type |-> "float", default |-> d, precision |-> p]] :
        v \in TValues, d \in TDefaults, p \in TPrecisions}

Tables ==
    {EmptyTable,
     [k \in {"12.7"} |-> "A"],
     [k \in {"7", "None"} |-> IF k = "7" THEN "B" ELSE "C"],
     [k \in {"abc"} |-> "abc"]}

LookupValues == {None, "12.7", "abc", "int:7"}

LookupCalls ==
    {[fn |-> "lookup", value |-> v,
      spec |-> [type |-> "lookup", default |-> d]] :
        v \in LookupValues, d \in {None, "dflt"}}
    \cup
    {[fn |-> "lookup", value |-> v,
      spec |-> [type |-> "lookup", default |-> d, table |-> t]] :
        v \in LookupValues, d \in {None, "dflt"}, t \in Tables}

Parts == {Lit("ID-"), Field("value"), Field("unit"), Positional, OpenBrace}

\* The templates: a single brace is not followed by another brace (two
\* braces in a row are the escape of a literal brace, part of a text).
Templates ==
    {t \in SeqsUpTo(Parts, MaxParts) :
        \A i \in 1..(Len(t) - 1) :
            t[i].kind = "open" => t[i + 1].kind = "lit"}

\* The extra named parameters: none, or unit.
ParamSets == {[n \in {} |-> None], [n \in {"unit"} |-> "Ah"]}

TemplateCalls ==
    {[fn |-> "template", value |-> v,
      spec |-> [type |-> "template", template |-> t, params |-> ps]] :
        v \in {None, "12.7"}, t \in Templates, ps \in ParamSets}

InitTransforms ==
    /\ EngineIdle
    /\ Isa95Idle
    /\ RegistryIdle
    /\ BridgeIdle
    /\ ExportIdle
    /\ CsvIdle
    /\ tcall \in IntCalls \cup FloatCalls \cup LookupCalls \cup TemplateCalls
    /\ tres = NoResult

Called == tres # NoResult

CallToInt ==
    /\ tcall.fn = "int" /\ ~Called
    /\ tres' = ToInt(tcall.value, tcall.spec)
    /\ UNCHANGED <<notTransform, tcall>>

CallToFloat ==
    /\ tcall.fn = "float" /\ ~Called
    /\ tres' = ToFloat(tcall.value, tcall.spec)
    /\ UNCHANGED <<notTransform, tcall>>

CallLookup ==
    /\ tcall.fn = "lookup" /\ ~Called
    /\ tres' = Lookup(tcall.value, tcall.spec)
    /\ UNCHANGED <<notTransform, tcall>>

CallTemplate ==
    /\ tcall.fn = "template" /\ ~Called
    /\ tres' = Template(tcall.value, tcall.spec)
    /\ UNCHANGED <<notTransform, tcall>>

NextTransforms ==
    \/ CallToInt
    \/ CallToFloat
    \/ CallLookup
    \/ CallTemplate

SpecTransforms == InitTransforms /\ [][NextTransforms]_vars

-----------------------------------------------------------------------------
(* connectors/isa95.py: ISA95Connector.parse *)

Leaf(tag, text) == Elem(tag, text, NoAttrib, <<>>)

\* The Property elements: the identifier as the attribute ID, as the child
\* element ID, or missing; the child Value with a text or empty.
Properties ==
    {Elem("Property",
          "",
          IF idAs = "attr" THEN [a \in {"ID"} |-> "capacity"] ELSE NoAttrib,
          (IF idAs = "child" THEN <<Leaf("ID", "capacity")>> ELSE <<>>)
              \o <<Leaf("Value", v)>>) :
        idAs \in {"attr", "child", "none"}, v \in {"100", ""}}

\* The MaterialLot elements: with or without the child ID, with up to
\* MaxProps properties.
Lots ==
    {Elem("MaterialLot", "", NoAttrib, ident \o props) :
        ident \in {<<>>, <<Leaf("ID", "BAT-001")>>},
        props \in SeqsUpTo(Properties, MaxProps)}

\* Property elements that are siblings: each with or without the child ID
\* and with or without the child Value.
PropertyIds == {"capacity", "mass"}

SiblingProperties ==
    {Elem("Property", "", NoAttrib, ident \o value) :
        ident \in {<<>>} \cup {<<Leaf("ID", x)>> : x \in PropertyIds},
        value \in {<<>>, <<Leaf("Value", "100")>>, <<Leaf("Value", "5")>>}}

\* MaterialLot elements with two Property children.
SiblingLots ==
    {Elem("MaterialLot", "", NoAttrib, <<p, q>>) :
        p, q \in SiblingProperties}

\* The XML sources: text that is not well-formed XML, a document whose root
\* is a MaterialLot, a document whose root wraps up to MaxLots of them, a
\* document whose root wraps a MaterialLot with two properties.
Documents ==
    {NoDoc}
    \cup {[wellFormed |-> TRUE,
           root |-> Elem("MaterialInformation", "", NoAttrib, <<lot>>),
           rootElement |-> "MaterialLot"] :
            lot \in SiblingLots}
    \cup {[wellFormed |-> TRUE, root |-> lot, rootElement |-> "MaterialLot"] :
            lot \in Lots}
    \cup {[wellFormed |-> TRUE,
           root |-> Elem("MaterialInformation", "", NoAttrib, lots),
           rootElement |-> "MaterialLot"] :
            lots \in SeqsUpTo(Lots, MaxLots)}

InitIsa95 ==
    /\ EngineIdle
    /\ TransformIdle
    /\ RegistryIdle
    /\ BridgeIdle
    /\ ExportIdle
    /\ CsvIdle
    /\ xdoc \in Documents
    /\ xpc = "idle"
    /\ xelements = <<>>
    /\ xyielded = <<>>
    /\ xerror = "none"

\* Lines 51-60 and 78-79: ET.fromstring / ET.parse; ParseError becomes
\* ConnectorError.
XmlLoad ==
    /\ xpc = "idle"
    /\ IF xdoc.wellFormed
       THEN xpc' = "find" /\ xerror' = xerror
       ELSE xpc' = "raised" /\ xerror' = "ConnectorError"
    /\ UNCHANGED <<notIsa95, xdoc, xelements, xyielded>>

\* Lines 67-72 and 80-81: the target elements, ConnectorError when there is
\* none.
XmlFind ==
    /\ xpc = "find"
    /\ LET elements == FindElements(xdoc.root, xdoc.rootElement)
       IN  IF elements = <<>>
           THEN /\ xpc' = "raised"
                /\ xerror' = "ConnectorError"
                /\ xelements' = xelements
           ELSE /\ xpc' = "yield"
                /\ xerror' = xerror
                /\ xelements' = elements
    /\ UNCHANGED <<notIsa95, xdoc, xyielded>>

\* Lines 75-76: yield self._to_record(element), for the next element.
XmlYield ==
    /\ xpc = "yield"
    /\ Len(xyielded) < Len(xelements)
    /\ xyielded' = Append(xyielded, ToRecord(xelements[Len(xyielded) + 1]))
    /\ UNCHANGED <<notIsa95, xdoc, xpc, xelements, xerror>>

\* The generator is exhausted.
XmlEnd ==
    /\ xpc = "yield"
    /\ Len(xyielded) = Len(xelements)
    /\ xpc' = "done"
    /\ UNCHANGED <<notIsa95, xdoc, xelements, xyielded, xerror>>

NextIsa95 ==
    \/ XmlLoad
    \/ XmlFind
    \/ XmlYield
    \/ XmlEnd

SpecIsa95 == InitIsa95 /\ [][NextIsa95]_vars

-----------------------------------------------------------------------------
(* models/registry.py: calls of the registry after module load *)

\* Number of register calls made after module load.
MaxRegistrations == 2

\* "x", "X", "battery_pass", "Battery_pass"
RegistryNames ==
    {LowerCase("x"), UpperCase("x"), LowerCase("battery_pass"),
     <<Run("b", TRUE), Run("attery_pass", FALSE)>>}

SchemaClasses == {"V1", "V2"}

\* context: not given, empty, or a JSON-LD context.
RegistryContexts == {None, EmptyDict, "ctx"}

\* Documents handed to validate: one that conforms, one that does not.
RegistryData == {Dict([k \in {"a"} |-> "1"]), Dict([k \in {"b"} |-> "1"])}

InitRegistry ==
    /\ EngineIdle
    /\ TransformIdle
    /\ Isa95Idle
    /\ BridgeIdle
    /\ ExportIdle
    /\ CsvIdle
    /\ \E dppImports, batteryImports \in BOOLEAN :
          RegistryLoaded(dppImports, batteryImports)

Registrations ==
    Cardinality({i \in DOMAIN registered : registered[i].at = "call"})

\* As Register, but the table is started afresh.
RegisterReplacing ==
    /\ Registrations < MaxRegistrations
    /\ \E name \in RegistryNames, schema \in SchemaClasses,
          context \in RegistryContexts :
          /\ schemas' = Store(NoSchemas, Lower(name), schema)
          /\ contexts' = contexts
          /\ registered' = Append(registered, [name |-> name,
                                               schema |-> schema,
                                               at |-> "call"])
          /\ rres' = RegistryRet("register", name, None)
    /\ UNCHANGED notRegistry

\* register(name, schema_class, context), lines 33-36.
Register ==
    /\ Registrations < MaxRegistrations
    /\ \E name \in RegistryNames, schema \in SchemaClasses,
          context \in RegistryContexts :
          /\ schemas' = Store(schemas, Lower(name), schema)
          /\ contexts' = IF context \notin {None, EmptyDict}
                         THEN Store(contexts, Lower(name), context)
                         ELSE contexts
          /\ registered' = Append(registered, [name |-> name,
                                               schema |-> schema,
                                               at |-> "call"])
          /\ rres' = RegistryRet("register", name, None)
    /\ UNCHANGED notRegistry

\* get_schema(name)
GetSchema ==
    /\ \E name \in RegistryNames :
          rres' = GetSchemaOf(schemas, "get_schema", name)
    /\ UNCHANGED <<notRegistry, schemas, contexts, registered>>

\* get_context(name), line 71: cls._contexts.get(name.lower(), {})
GetContext ==
    /\ \E name \in RegistryNames :
          rres' = RegistryRet("get_context", name,
                              IF Lower(name) \in DOMAIN contexts
                              THEN contexts[Lower(name)] ELSE EmptyDict)
    /\ UNCHANGED <<notRegistry, schemas, contexts, registered>>

\* list_all(), line 76: the keys of the table.
ListAll ==
    /\ rres' = [NoRegistryCall EXCEPT !.op = "list_all",
                                      !.names = DOMAIN schemas]
    /\ UNCHANGED <<notRegistry, schemas, contexts, registered>>

\* validate(name, data)
Validate ==
    /\ \E name \in RegistryNames, data \in RegistryData :
          rres' = ValidateOf(schemas, name, data)
    /\ UNCHANGED <<notRegistry, schemas, contexts, registered>>

NextRegistry ==
    \/ Register
    \/ GetSchema
    \/ GetContext
    \/ ListAll
    \/ Validate

SpecRegistry == InitRegistry /\ [][NextRegistry]_vars

-----------------------------------------------------------------------------
(* core/bridge.py: calls of DPPBridge.transform *)

\* Number of documents engine.execute returns.
MaxDocs == 2

\* target.schema: "", "dpp", "DPP", and a name that is not registered.
SchemaNames ==
    {<<>>, LowerCase("dpp"), UpperCase("dpp"), LowerCase("nope")}

\* The target section: schema and format are optional.
TargetSections ==
    LET formats == {"jsonld", "json"}
    IN  {NoSchemas}
        \cup {[k \in {"schema"} |-> s] : s \in SchemaNames}
        \cup {[k \in {"format"} |-> f] : f \in formats}
        \cup {[k \in {"schema", "format"} |-> IF k = "schema" THEN s ELSE f] :
                 s \in SchemaNames, f \in formats}

\* The section that holds source and target, with or without a target.
MetaSections ==
    LET meta == [k \in {"source"} |-> "csv"]
    IN  {meta} \cup {Store(meta, "target", t) : t \in TargetSections}

\* The documented shape {mapping: {source, target}, rules}.
NestedConfigs ==
    {[k \in {"mapping", "rules"} |-> IF k = "mapping" THEN m ELSE <<>>] :
        m \in MetaSections}

\* The shape {source, target, rules}, which the engine accepts as well
\* (engine.py, line 50).
FlatConfigs == {Store(m, "rules", <<>>) : m \in MetaSections}

\* The documents of the model: two that conform to the schemas, one that
\* does not.
BridgeDocs ==
    {Dict([k \in {"a"} |-> "1"]), Dict([k \in {"a"} |-> "2"]),
     Dict([k \in {"b"} |-> "1"])}

\* A call: the mapping as a dict or as the path of a file (which the loader
\* accepts in the documented shape, or rejects), the flags, what
\* engine.execute gives for the source (a list of documents or an
\* exception) and what PyLD does.
BridgeCalls ==
    {c \in [arg : {"dict", "path", "rejected"},
            config : NestedConfigs \cup FlatConfigs,
            validate : BOOLEAN,
            output : BOOLEAN,
            executes : SeqsUpTo(BridgeDocs, MaxDocs),
            fails : BOOLEAN,
            pyld : {"absent", "raises", "compacts"}] :
        /\ c.arg # "dict" => c.config \in NestedConfigs
        /\ c.arg = "rejected" => c.config = CHOOSE x \in NestedConfigs : TRUE
        /\ c.fails => c.executes = <<>>}

InitBridge ==
    /\ EngineIdle
    /\ TransformIdle
    /\ Isa95Idle
    /\ RegistryIdle
    /\ ExportIdle
    /\ CsvIdle
    /\ bcfg \in BridgeCalls
    /\ bpc = "start"
    /\ bresults = <<>>
    /\ bnext = 0
    /\ blog = <<>>
    /\ bwritten = NotWritten
    /\ bout = NoBridgeOutcome

Stage(name, i) == [stage |-> name, doc |-> i]

BridgeRaised(exc) == [kind |-> "raised", docs |-> <<>>, exc |-> exc]

\* Lines 67-70: the mapping is loaded when it is a path.
BridgeResolve ==
    /\ bpc = "start"
    /\ IF bcfg.arg = "rejected"
       THEN bpc' = "raised" /\ bout' = BridgeRaised("MappingError")
       ELSE bpc' = "execute" /\ bout' = bout
    /\ UNCHANGED <<notBridge, registryVars, bcfg, bresults, bnext, blog,
                   bwritten>>

\* Lines 73-78: results = self.engine.execute(mapping_config, source), and
\* whether the records are to be validated.
BridgeExecute ==
    /\ bpc = "execute"
    /\ IF bcfg.fails
       THEN /\ bpc' = "raised"
            /\ bout' = BridgeRaised("MappingError")
            /\ UNCHANGED <<bresults, bnext, blog>>
       ELSE /\ bresults' = bcfg.executes
            /\ blog' = Append(blog, Stage("execute", 0))
            /\ bnext' = 1
            /\ bpc' = IF bcfg.validate /\ SchemaName(bcfg.config) # <<>>
                      THEN "validate" ELSE "export"
            /\ bout' = bout
    /\ UNCHANGED <<notBridge, registryVars, bcfg, bwritten>>

\* Lines 79-84: SchemaRegistry.validate(schema_name, record) for the next
\* record; an exception ends the loop.
BridgeValidate ==
    /\ bpc = "validate"
    /\ IF bnext > Len(bresults)
       THEN bpc' = "export" /\ UNCHANGED <<bnext, blog, bout>>
       ELSE LET r == ValidateOf(schemas, SchemaName(bcfg.config),
                                bresults[bnext])
            IN  /\ blog' = Append(blog, Stage("validate", bnext))
                /\ IF ~r.raised
                   THEN bnext' = bnext + 1 /\ bpc' = bpc /\ bout' = bout
                   ELSE IF Swallowed(r.exc)
                   THEN bnext' = bnext /\ bpc' = "export" /\ bout' = bout
                   ELSE /\ bnext' = bnext
                        /\ bpc' = "raised"
                        /\ bout' = BridgeRaised(r.exc)
    /\ UNCHANGED <<notBridge, registryVars, bcfg, bresults, bwritten>>

\* Lines 87-98: the export, when an output path is given.
BridgeExport ==
    /\ bpc = "export" /\ bcfg.output
    /\ LET e == ExportResults(bcfg.config, bresults, bcfg.pyld)
       IN  /\ bresults' = e.docs
           /\ bwritten' = e.written
    /\ blog' = Append(blog, Stage("export", 0))
    /\ bpc' = "return"
    /\ UNCHANGED <<notBridge, registryVars, bcfg, bnext, bout>>

\* Line 100: return results
BridgeReturn ==
    /\ bpc = "return" \/ (bpc = "export" /\ ~bcfg.output)
    /\ bpc' = "returned"
    /\ bout' = [kind |-> "returned", docs |-> bresults, exc |-> "none"]
    /\ UNCHANGED <<notBridge, registryVars, bcfg, bresults, bnext, blog,
                   bwritten>>

NextBridge ==
    \/ BridgeResolve
    \/ BridgeExecute
    \/ BridgeValidate
    \/ BridgeExport
    \/ BridgeReturn

SpecBridge == InitBridge /\ [][NextBridge]_vars

-----------------------------------------------------------------------------
(* exporters/jsonld.py: direct calls of the exporter *)

\* Number of items handed to export_list.
MaxItems == 2

\* The context given to JSONLDExporter: none, an empty one, or one of the
\* caller's.
ExportContexts == {None, EmptyDict, "ctx"}

\* Documents, the empty one and one that has "@context" already among
\* them, and a model instance with a field that is None.
ExportItems ==
    {Dict([k \in {"a"} |-> "1"]), Dict([k \in {"a"} |-> "2"]),
     Dict(NoSchemas), Dict([k \in {"a", "@context"} |-> "1"]),
     Model([k \in {"a", "b"} |-> IF k = "a" THEN "1" ELSE None])}

ExportCalls ==
    {c \in [fn : {"export", "export_list"},
            context : ExportContexts,
            items : SeqsUpTo(ExportItems, MaxItems),
            output : BOOLEAN,
            compact : BOOLEAN,
            pyld : {"absent", "raises", "compacts"}] :
        IF c.fn = "export" THEN Len(c.items) = 1
        ELSE c.compact /\ c.pyld = "absent"}

InitExport ==
    /\ EngineIdle
    /\ TransformIdle
    /\ Isa95Idle
    /\ RegistryIdle
    /\ BridgeIdle
    /\ CsvIdle
    /\ ecall \in ExportCalls
    /\ eres = NoExportResult

\* JSONLDExporter(context).export(data, output_path, compact)
CallExport ==
    /\ ecall.fn = "export" /\ ~eres.called
    /\ LET e == Export(ContextOf(ecall.context), ecall.items[1],
                       ecall.output, ecall.compact, ecall.pyld)
       IN  eres' = [called |-> TRUE, doc |-> e.doc, written |-> e.written,
                    data |-> e.data]
    /\ UNCHANGED <<notExport, ecall>>

\* JSONLDExporter(context).export_list(items, output_path)
CallExportList ==
    /\ ecall.fn = "export_list" /\ ~eres.called
    /\ LET e == ExportList(ContextOf(ecall.context), ecall.items,
                           ecall.output)
       IN  eres' = [called |-> TRUE, doc |-> e.doc, written |-> e.written,
                    data |-> e.data]
    /\ UNCHANGED <<notExport, ecall>>

NextExport ==
    \/ CallExport
    \/ CallExportList

SpecExport == InitExport /\ [][NextExport]_vars

-----------------------------------------------------------------------------
(* A CSVConnector instance and the files it parses *)

HeaderLine(sep) == <<"h1", sep, "h2">>

RowLine(sep) == <<"1", " ", sep, "2">>

\* A line of text before the table, such as a title.
TitleLine == <<"no", "t", "e">>

\* The files of one dialect: header lines, data lines and title lines in any
\* order, and the file that does not exist.
CsvFilesOf(sep) ==
    {CsvFile(lines) :
        lines \in UNION {[1..n -> {HeaderLine(sep), RowLine(sep), TitleLine}] :
                             n \in 1..MaxLines}}

CsvFiles == CsvFilesOf(",") \cup CsvFilesOf(";") \cup {MissingFile}

CsvArguments == [delimiter : {None, ",", ";"}, skip_rows : 0..MaxSkip]

\* connector = CSVConnector(delimiter, skip_rows=skip_rows)
InitCsv ==
    /\ EngineIdle
    /\ TransformIdle
    /\ Isa95Idle
    /\ RegistryIdle
    /\ BridgeIdle
    /\ ExportIdle
    /\ csvArgs \in CsvArguments
    /\ csvDelimiter = DelimiterOf(csvArgs.delimiter)
    /\ csvSource = NoCsvSource
    /\ csvYielded = <<>>
    /\ csvError = NoCsvError

\* list(connector.parse(f)), with whatever the instance parsed before
CsvParse ==
    \E f \in CsvFiles :
        LET r == Parse(csvDelimiter, csvArgs.skip_rows, f)
        IN  /\ csvSource' = f
            /\ csvDelimiter' = r.delimiter
            /\ csvYielded' = r.yielded
            /\ csvError' = r.error
            /\ UNCHANGED <<notCsv, csvArgs>>

NextCsv == CsvParse

SpecCsv == InitCsv /\ [][NextCsv]_vars

-----------------------------------------------------------------------------
(* Notions the properties share *)

Rules == mapping.rules

\* The value a caller finds at path p of document t, a reference to a
\* container of the configuration being followed; None when there is none.
RECURSIVE ValueAt(_, _, _)
ValueAt(t, h, p) ==
    IF p \in DOMAIN t THEN t[p]
    ELSE LET through == {q \in DOMAIN t : IsPrefix(q, p) /\ IsRef(t[q])}
         IN  IF through # {}
             THEN LET q == CHOOSE x \in through : TRUE
                  IN  ValueAt(h[t[q]], h, SubSeq(p, Len(q) + 1, Len(p)))
             ELSE IF \E x \in DOMAIN t : IsPrefix(p, x) THEN "{...}"
             ELSE None

\* The value rule writes for rec; None when it writes nothing.
FinalVal(rule, rec) ==
    LET r == Resolve(rule, rec)
    IN  IF r.raised THEN None ELSE Transformed(rule, r.val).val

Writes(rule, rec) == FinalVal(rule, rec) # None

\* The record lacks the source path of a required rule.
Lacks(rule, rec) == rule.required /\ rec[rule.source] = None

\* The connector has yielded its whole batch and ended normally.
BatchParsed == connector /\ ~source.bad /\ records = source.recs

\* A document has been produced in this call by the last turn of the loop:
\* the transformer has not been invoked since, so the containers are as the
\* transformer left them when it returned the document.
Produced == Len(results) >= 1 /\ applied = Len(results)

LastDoc == results[Len(results)]

LastRec == records[Len(results)]

\* The rule applications of a batch in the order of execution.
Before(i1, j1, i2, j2) == i1 < i2 \/ (i1 = i2 /\ j1 < j2)

-----------------------------------------------------------------------------
(* C1 *)

\* C1 as stated: if some record of the batch lacks the source path of a
\* required rule, execute raises MappingError naming the source path of such
\* a rule and returns no documents.
C1_AsStated ==
    (Finished /\ BatchParsed
     /\ \E i \in 1..Len(records), j \in 1..Len(Rules) : Lacks(Rules[j], records[i]))
    => /\ outcome.kind = "raised"
       /\ outcome.err.exc = "MappingError"
       /\ outcome.docs = <<>>
       /\ \E i \in 1..Len(records), j \in 1..Len(Rules) :
            /\ Lacks(Rules[j], records[i])
            /\ Rules[j].source \in Range(outcome.err.msg)

\* C1, amended: if some record of the batch lacks the source path of a
\* required rule, execute raises MappingError and returns no documents, not
\* even those of the records mapped before; the failure reported is the
\* first one in the order of execution (records in order, rules in order),
\* so the error names the missing source path exactly when no other failure
\* (an unregistered transform name, an assignment through a value that is
\* not a mapping) comes before it.
C1_RequiredMissing ==
    (Finished /\ BatchParsed
     /\ \E i \in 1..Len(records), j \in 1..Len(Rules) : Lacks(Rules[j], records[i]))
    => /\ outcome.kind = "raised"
       /\ outcome.err.exc = "MappingError"
       /\ outcome.docs = <<>>
       /\ outcome.at \in 1..Len(Rules)
       /\ Len(results) < Len(records)
       /\ LET fi == Len(results) + 1
              fj == outcome.at
          IN  /\ \A i \in 1..Len(records), j \in 1..Len(Rules) :
                    Lacks(Rules[j], records[i]) => ~Before(i, j, fi, fj)
              /\ Lacks(Rules[fj], records[fi])
                    => outcome.err.msg = <<"Transformation failed",
                                           "Required field missing",
                                           Rules[fj].source>>
              /\ ~Lacks(Rules[fj], records[fi])
                    => outcome.err.msg[2] # "Required field missing"

\* A batch whose first record was mapped and whose second lacks a required
\* source path: the call has raised and names the path.
C1_Witness ==
    /\ Finished /\ BatchParsed
    /\ Len(results) = 1 /\ Len(records) = 2
    /\ outcome.kind = "raised"
    /\ outcome.at >= 1
    /\ Lacks(Rules[outcome.at], records[2])
    /\ outcome.err.msg = <<"Transformation failed", "Required field missing", "s1">>

-----------------------------------------------------------------------------
(* C2 *)

\* C2 as stated: for a rule that is not required and whose source path is
\* absent, the document holds the rule's default at the target, and nothing
\* there exactly when the default is None.
C2_AsStated ==
    Produced =>
        \A j \in 1..Len(Rules) :
            (~Rules[j].required /\ LastRec[Rules[j].source] = None
             /\ \A k \in 1..Len(Rules) :
                    k # j => ~Comparable(Rules[k].target, Rules[j].target))
            => ValueAt(LastDoc, heap, Rules[j].target) = Rules[j].default

\* No rule after j writes at, above or below the target of j.
NotOverwritten(j, rec) ==
    \A k \in (j + 1)..Len(Rules) :
        Writes(Rules[k], rec) => ~Comparable(Rules[k].target, Rules[j].target)

\* No other rule writes at, above or below the target of j.
NotWrittenByOthers(j, rec) ==
    \A k \in 1..Len(Rules) :
        (k # j /\ Writes(Rules[k], rec))
            => ~Comparable(Rules[k].target, Rules[j].target)

\* C2, amended: a rule that is not required and whose source path is absent
\* writes its default at its target, passed through the rule's transform
\* when it has one, and writes nothing exactly when that value is None (the
\* default is None or not given, or the transform maps the default to None).
\* The document, as the transformer returns it, holds what the rule wrote
\* unless a later rule writes at, above or below the same path; it holds
\* nothing there when the rule wrote nothing and no other rule did.
C2_DefaultWritten ==
    Produced =>
        \A j \in 1..Len(Rules) :
            (~Rules[j].required /\ LastRec[Rules[j].source] = None)
            => LET e == Transformed(Rules[j], Rules[j].default).val
               IN  /\ (e # None /\ NotOverwritten(j, LastRec))
                        => ValueAt(LastDoc, heap, Rules[j].target) = e
                   /\ (e = None /\ NotWrittenByOthers(j, LastRec))
                        => ValueAt(LastDoc, heap, Rules[j].target) = None
                   /\ (Rules[j].transform.type = "none") => e = Rules[j].default

\* A document that holds the default of a rule whose source path is absent.
C2_Witness ==
    /\ Produced
    /\ \E j \in 1..Len(Rules) :
        /\ ~Rules[j].required /\ LastRec[Rules[j].source] = None
        /\ Rules[j].default = "dflt"
        /\ ValueAt(LastDoc, heap, Rules[j].target) = "dflt"
    /\ \E j \in 1..Len(Rules) :
        /\ ~Rules[j].required /\ LastRec[Rules[j].source] = None
        /\ Rules[j].default = None
        /\ ValueAt(LastDoc, heap, Rules[j].target) = None

-----------------------------------------------------------------------------
(* C3 *)

\* j is the last rule of the list whose target is at, above or below the
\* target of rule j.
LastAtTarget(j) ==
    \A k \in (j + 1)..Len(Rules) :
        ~Comparable(Rules[k].target, Rules[j].target)

Siblings(p, q) ==
    /\ Len(p) = Len(q) /\ Len(p) >= 2 /\ p # q
    /\ SubSeq(p, 1, Len(p) - 1) = SubSeq(q, 1, Len(q) - 1)

-----------------------------------------------------------------------------
(* C4 *)

Perms(n) == {f \in [1..n -> 1..n] : Injective(f)}

Permuted(rules, f) == [i \in 1..Len(rules) |-> rules[f[i]]]

\* What the transformer makes of rec with a configuration as loaded: the
\* value of the document, or "raised".
ResultOf(rules, rec) ==
    LET t == Transform(rules, rec, HeapInit)
    IN  IF t.ok THEN [ok |-> TRUE, value |-> DocValue(t.doc, t.heap)]
        ELSE [ok |-> FALSE, value |-> EmptyTree]

\* The rule whose application raised in the record that failed, if one did.
FailedInTransform == pc = "raised" /\ outcome.at >= 1

\* Every declaration order of the rules gives the result this call has
\* got for the record it handled last.
OrderIrrelevant ==
    /\ Produced =>
         \A f \in Perms(Len(Rules)) :
            ResultOf(Permuted(Rules, f), LastRec)
                = [ok |-> TRUE, value |-> DocValue(LastDoc, heap)]
    /\ FailedInTransform =>
         \A f \in Perms(Len(Rules)) :
            ~ResultOf(Permuted(Rules, f), records[Len(results) + 1]).ok

NoTwoIdentical ==
    \A i, j \in 1..Len(Rules) : i # j => Rules[i].target # Rules[j].target

NoTwoComparable ==
    \A i, j \in 1..Len(Rules) :
        i # j => ~Comparable(Rules[i].target, Rules[j].target)

\* C4 as stated: permuting the declaration order changes the document only
\* when two rules have identical targets.
C4_AsStated == NoTwoIdentical => OrderIrrelevant

\* C4, amended: two rules with sibling targets a.b and a.c give one
\* document with both under a single a, and permuting the declaration order
\* of the rules changes the result only when two rules have identical
\* targets or the target of one is a proper prefix of the target of another
\* (there the later rule replaces what the earlier one built, writes into
\* the value the earlier one stored, or fails on it).
C4_PathMerge ==
    /\ NoTwoComparable => OrderIrrelevant
    /\ Produced =>
        \A i, j \in 1..Len(Rules) :
            (/\ Siblings(Rules[i].target, Rules[j].target)
             /\ Writes(Rules[i], LastRec) /\ Writes(Rules[j], LastRec)
             /\ NoTwoComparable)
            => /\ Get(DocValue(LastDoc, heap), Rules[i].target)
                    = FinalVal(Rules[i], LastRec)
               /\ Get(DocValue(LastDoc, heap), Rules[j].target)
                    = FinalVal(Rules[j], LastRec)
               /\ Get(DocValue(LastDoc, heap),
                      SubSeq(Rules[i].target, 1, Len(Rules[i].target) - 1))
                    = "{...}"

\* A document built by rules of which two are siblings and both wrote, no
\* target at or above another.
C4_Witness ==
    /\ Produced
    /\ Len(Rules) >= 2
    /\ NoTwoComparable
    /\ \E i, j \in 1..Len(Rules) :
        /\ Siblings(Rules[i].target, Rules[j].target)
        /\ Writes(Rules[i], LastRec) /\ Writes(Rules[j], LastRec)
        /\ Get(DocValue(LastDoc, heap), Rules[i].target) = "12.7"
        /\ Get(DocValue(LastDoc, heap), Rules[j].target) = "dflt"

-----------------------------------------------------------------------------
(* C5 *)

\* C5: when execute returns, it returns one document per record the
\* connector yielded, the i-th being what the transformer makes of the i-th
\* record.
C5_OnePerRecordInOrder ==
    pc = "returned" =>
        /\ outcome.kind = "returned"
        /\ ~source.bad
        /\ Len(outcome.docs) = Len(source.recs)
        /\ \A i \in 1..Len(source.recs) :
            LET t == Transform(Rules, source.recs[i], HeapInit)
            IN  t.ok /\ outcome.docs[i] = t.doc

\* A call that has returned two different documents for two records.
C5_Witness ==
    /\ pc = "returned"
    /\ Len(outcome.docs) = 2
    /\ outcome.docs[1] # outcome.docs[2]
    /\ DOMAIN outcome.docs[1] # {}

-----------------------------------------------------------------------------
(* C6 *)

\* C6: a second call of execute with the same mapping dict and the same
\* source on the same engine ends as the first one did: it returns equal
\* documents, or raises as the first one did.
C6_Idempotent ==
    (Finished /\ call >= 2) => Observe(outcome, heap) = first

-----------------------------------------------------------------------------
(* C7 *)

\* C7: a document produced for an earlier record is not changed by the
\* transformation of a later record.
C7_EarlierDocumentsUnchanged ==
    [][\A i \in 1..Len(results) :
          i <= Len(results')
            => DocValue(results'[i], heap') = DocValue(results[i], heap)]_vars

-----------------------------------------------------------------------------
(* C8 *)

\* C8: the containers of the mapping configuration (a rule's default, the
\* values of a lookup table) hold what they held when the configuration
\* was passed in.
C8_ConfigurationReadOnly == heap = HeapInit

-----------------------------------------------------------------------------
(* C9 *)

\* C9: the transformer is invoked only after the connector has yielded its
\* whole sequence and ended; when the connector fails, after whatever number
\* of records, execute raises ConnectorError and the transformer has not
\* been invoked.
C9_MaterializedFirst ==
    /\ applied >= 1 => BatchParsed
    /\ Len(results) >= 1 => BatchParsed
    /\ (Finished /\ connector /\ source.bad)
        => /\ outcome.kind = "raised"
           /\ outcome.err.exc = "ConnectorError"
           /\ applied = 0
           /\ results = <<>>

\* The connector has failed after the last of two records.
C9_Witness ==
    /\ Finished /\ connector /\ source.bad
    /\ Len(records) = 2
    /\ Len(Rules) >= 1
    /\ outcome.err.exc = "ConnectorError"

-----------------------------------------------------------------------------
(* C10 *)

\* C10: with the mapping given as a file path, the connector is created and
\* the source is read only after the file has been loaded and validated; a
\* missing or malformed file makes execute and DPPBridge.transform raise
\* MappingError without a connector and without a record read.
C10_ValidatedFirst ==
    mappingArg = "path" =>
        /\ (connector \/ pc \in {"connect", "parse", "transform", "returned"}
            \/ records # <<>>)
            => (file.status = "ok" /\ mapping = file.content)
        /\ (file.status # "ok")
            => /\ pc \in {"idle", "start", "raised"}
               /\ ~connector /\ records = <<>> /\ applied = 0
               /\ pc = "raised" => outcome.err.exc = "MappingError"

\* DPPBridge.transform has raised on a mapping file of the wrong shape.
C10_Witness ==
    /\ api = "bridge" /\ mappingArg = "path"
    /\ file.status = "invalid"
    /\ pc = "raised"
    /\ Len(source.recs) >= 1

-----------------------------------------------------------------------------
(* C11 *)

\* Rule j names a transform that is not registered and record i gives it a
\* value (the source value or the default) that is not None: the
\* transformer, when it comes to rule j of record i, calls apply.
AppliesUnregistered(i, j) ==
    /\ Rules[j].transform.type # "none"
    /\ Rules[j].transform.type \notin Registered
    /\ ~Resolve(Rules[j], records[i]).raised
    /\ Resolve(Rules[j], records[i]).val # None

\* C11: a rule whose transform type is not registered makes execute fail
\* with MappingError and without documents once the batch has a record that
\* gives the rule a value other than None; the call fails no later than at
\* the first such application, and when the transformer has come to it, the
\* error is "Unknown transform" with the name and the list of the
\* registered names.
C11_UnknownTransform ==
    (Finished /\ BatchParsed
     /\ \E i \in 1..Len(records), j \in 1..Len(Rules) : AppliesUnregistered(i, j))
    => /\ outcome.kind = "raised"
       /\ outcome.err.exc = "MappingError"
       /\ outcome.docs = <<>>
       /\ outcome.at \in 1..Len(Rules)
       /\ Len(results) < Len(records)
       /\ LET fi == Len(results) + 1
              fj == outcome.at
          IN  /\ \A i \in 1..Len(records), j \in 1..Len(Rules) :
                    AppliesUnregistered(i, j) => ~Before(i, j, fi, fj)
              /\ AppliesUnregistered(fi, fj)
                    => outcome.err.msg
                         = <<"Transformation failed", "Unknown transform",
                             Rules[fj].transform.type, "Available">> \o Builtin

\* A batch whose first record gave the rule of the unregistered transform
\* no value and was mapped, and whose second record gave it one: the call
\* has raised, listing the registered names.
C11_Witness ==
    /\ Finished /\ BatchParsed
    /\ Len(results) = 1 /\ Len(records) = 2
    /\ outcome.kind = "raised"
    /\ outcome.at >= 1
    /\ AppliesUnregistered(2, outcome.at)
    /\ "lookup" \in Range(outcome.err.msg)
    /\ "bogus" \in Range(outcome.err.msg)

-----------------------------------------------------------------------------
(* C12 *)

\* C12: _to_int and _to_float never raise.  For every input _to_int gives
\* the float-parsed value truncated to an integer or the default, and
\* _to_float gives the parsed number, rounded when precision is set, or the
\* default.
C12_SoftFail ==
    (Called /\ tcall.fn \in {"int", "float"})
    => /\ ~tres.raised
       /\ LET f == Float(tcall.value)
              d == Kw(tcall.spec, "default")
          IN  /\ tcall.fn = "int"
                    => \/ tres.val = d
                       \/ f.kind = "fin" /\ tres.val = IntOf(f).val
              /\ tcall.fn = "float"
                    => \/ tres.val = d
                       \/ /\ ~IsException(f)
                          /\ tres.val \in
                                {FloatValue(f),
                                 FloatValue(Round(f, "int:0")),
                                 FloatValue(Round(f, "int:2"))}

-----------------------------------------------------------------------------
(* C13 *)

\* C13: lookup never raises; it gives table[str(value)] when the
\* stringified input is a key of the table, and the default (None when none
\* is given) when the key is absent or no table is supplied, so the input
\* itself comes back only when the table or the default says so.
C13_Lookup ==
    (Called /\ tcall.fn = "lookup")
    => LET spec  == tcall.spec
           found == "table" \in DOMAIN spec
                        /\ Str(tcall.value) \in DOMAIN spec.table
       IN  /\ ~tres.raised
           /\ found => tres.val = spec.table[Str(tcall.value)]
           /\ ~found => tres.val = spec.default
           /\ tres.val = tcall.value
                => \/ tcall.value = spec.default
                   \/ found /\ spec.table[Str(tcall.value)] = tcall.value

\* lookup of the int 7 in a table with the key "7", and lookup of a string
\* the table lacks with a default.
C13_Witness ==
    /\ Called /\ tcall.fn = "lookup"
    /\ \/ tcall.value = "int:7" /\ tres.val = "B"
       \/ /\ tcall.value = "abc" /\ "table" \in DOMAIN tcall.spec
          /\ "abc" \notin DOMAIN tcall.spec.table
          /\ tres.val = "dflt"

-----------------------------------------------------------------------------
(* C14 *)

\* Every field of the template can be resolved from value and the named
\* parameters, and no brace is left alone.
Resolvable(spec) ==
    \A i \in 1..Len(spec.template) :
        LET part == spec.template[i]
        IN  \/ part.kind = "lit"
            \/ part.kind = "field"
                /\ part.s \in (DOMAIN spec.params) \cup {"value"}

\* C14: template never raises; it gives the rendered string when every
\* placeholder can be resolved and the raw template whenever one cannot (a
\* named placeholder without parameter, a positional or empty {}
\* placeholder, a malformed brace).
C14_SilentDegrade ==
    (Called /\ tcall.fn = "template")
    => /\ ~tres.raised
       /\ Resolvable(tcall.spec)
            => tres = Format(tcall.spec.template,
                             Named(tcall.value, tcall.spec))
       /\ ~Resolvable(tcall.spec)
            => tres.val = RawTemplate(tcall.spec.template)

-----------------------------------------------------------------------------
(* C15 *)

\* <MaterialLot><ID>BAT-001</ID><Property ID="capacity"><Value>100</Value>
\* </Property></MaterialLot>
ScenarioLot ==
    Elem("MaterialLot", "", NoAttrib,
         <<Leaf("ID", "BAT-001"),
           Elem("Property", "", [a \in {"ID"} |-> "capacity"],
                <<Leaf("Value", "100")>>)>>)

\* The record has value v at key k.
Holds(record, k, v) == k \in DOMAIN record /\ record[k] = v

\* C15: parsing the scenario document with root MaterialLot yields one
\* record that contains both MaterialLot/Property/ID = "capacity" and the
\* synthesized key MaterialLot/Property[@ID='capacity']/Value = "100".
C15_Isa95Scenario ==
    (xdoc.wellFormed /\ xdoc.root = ScenarioLot /\ xpc \in {"done", "raised"})
    => /\ xpc = "done"
       /\ Len(xyielded) = 1
       /\ Holds(xyielded[1], "MaterialLot/Property/ID", "capacity")
       /\ Holds(xyielded[1], "MaterialLot/Property[@ID='capacity']/Value", "100")

-----------------------------------------------------------------------------
(* The schema registry *)

\* The letters of a name, whatever their case.
RECURSIVE Letters(_)
Letters(name) ==
    IF name = <<>> THEN "" ELSE Head(name).text \o Letters(Tail(name))

\* The register calls made so far whose name equals name ignoring case.
SameName(name) ==
    {i \in DOMAIN registered : Letters(registered[i].name) = Letters(name)}

Latest(S) == CHOOSE i \in S : \A j \in S : j <= i

\* C16: after any sequence of register calls, get_schema(n) returns the
\* schema class passed to the most recent register call whose name equals n
\* ignoring case, for every case variant of n (and raises
\* SchemaNotFoundError when there is no such call).
C16_LastRegistrationWins ==
    rres.op = "get_schema" =>
        IF SameName(rres.name) = {}
        THEN rres.raised /\ rres.exc = "SchemaNotFoundError"
        ELSE /\ ~rres.raised
             /\ rres.val = registered[Latest(SameName(rres.name))].schema

\* "x" is registered twice with different schema classes and get_schema
\* of a name written in another case returns the second.
C16_Witness ==
    /\ rres.op = "get_schema"
    /\ ~rres.raised
    /\ \E i, j \in SameName(rres.name) :
          /\ i < j
          /\ j = Latest(SameName(rres.name))
          /\ registered[i].schema # registered[j].schema
          /\ registered[j].name # rres.name
          /\ rres.val = registered[j].schema

\* C17: the table is append-only.  A step never removes a name from the
\* table, only register changes the table, get_schema and validate of a
\* name that is not registered raise SchemaNotFoundError and leave the table
\* as it was, and the names registered at module load stay resolvable.
C17_AppendOnly ==
    /\ [][/\ DOMAIN schemas \subseteq DOMAIN schemas'
          /\ schemas' # schemas => rres'.op = "register"
          /\ (/\ rres'.op \in {"get_schema", "validate"}
              /\ Letters(rres'.name) \notin DOMAIN schemas)
             => /\ rres'.raised
                /\ rres'.exc = "SchemaNotFoundError"
                /\ schemas' = schemas]_vars
    /\ [](\A i \in DOMAIN registered :
             registered[i].at = "load"
                => Letters(registered[i].name) \in DOMAIN schemas)

\* After two later register calls, get_schema("Battery_pass") returns the
\* class registered as battery_pass at module load.
C17_Witness ==
    /\ Registrations = MaxRegistrations
    /\ rres.op = "get_schema"
    /\ rres.name # LowerCase("battery_pass")
    /\ Letters(rres.name) = "battery_pass"
    /\ ~rres.raised
    /\ rres.val = "BatteryPassport"

-----------------------------------------------------------------------------
(* The bridge *)

\* The validation of record i has raised.
ValidationRaised(i) ==
    ValidateOf(schemas, SchemaName(bcfg.config), bcfg.executes[i]).raised

Validations == {k \in DOMAIN blog : blog[k].stage = "validate"}

\* C18: validation is not fatal in DPPBridge.transform.  The call raises
\* only when the loader or engine.execute has raised, and what it returns
\* and writes is what lines 86-100 give for the list execute returned,
\* whatever the validate flag, the registry and the documents are.
C18_ValidationNonFatal ==
    /\ bout.kind = "raised" => bcfg.arg = "rejected" \/ bcfg.fails
    /\ bout.kind = "returned" =>
          IF bcfg.output
          THEN LET e == ExportResults(bcfg.config, bcfg.executes, bcfg.pyld)
               IN  bout.docs = e.docs /\ bwritten = e.written
          ELSE bout.docs = bcfg.executes /\ bwritten = NotWritten

\* With validate=True, the second of two documents fails validation against
\* a registered schema, or the schema is not registered, and the call
\* returns both documents.
C18_Witness ==
    /\ bout.kind = "returned"
    /\ bcfg.validate
    /\ Len(bout.docs) = 2
    /\ \E k \in Validations : ValidationRaised(blog[k].doc)

\* The configuration has the documented shape and its mapping.target.schema
\* names a schema.
NamesSchema(config) ==
    /\ "mapping" \in DOMAIN config
    /\ "target" \in DOMAIN config["mapping"]
    /\ "schema" \in DOMAIN config["mapping"]["target"]
    /\ config["mapping"]["target"]["schema"] # <<>>

\* C19: for a configuration of the documented shape whose
\* mapping.target.schema names a schema, transform with validate=True hands
\* every output document to SchemaRegistry.validate, after engine.execute
\* has finished and before any export is written.
C19_ValidatedBeforeExport ==
    (bpc = "returned" /\ bcfg.validate /\ NamesSchema(bcfg.config)) =>
        \A i \in DOMAIN bcfg.executes :
            \E k \in Validations :
                /\ blog[k].doc = i
                /\ \E j \in 1..(k - 1) : blog[j].stage = "execute"
                /\ \A j \in 1..k : blog[j].stage # "export"

-----------------------------------------------------------------------------
(* The exporter *)

AllDocuments(items) == \A i \in DOMAIN items : items[i].class = "dict"

\* C20: for any list of documents, export_list returns {"@context": the
\* exporter's context, which is the default one unless a context was given
\* to the exporter, "@graph": the same documents in the same order}, no key
\* added to or removed from a document; the empty list gives an empty
\* @graph.
C20_ExportList ==
    (eres.called /\ ecall.fn = "export_list" /\ AllDocuments(ecall.items)) =>
        /\ DOMAIN eres.doc.fields = {"@context", "@graph"}
        /\ eres.doc.fields["@context"] =
              IF ecall.context = None THEN DefaultContext ELSE ecall.context
        /\ eres.doc.fields["@graph"] = ecall.items
        /\ eres.data = ecall.items

\* The compaction step has not produced a document: PyLD is missing, or
\* jsonld.compact has raised, or compaction was not asked for.
NotCompacted(c) == ~c.compact \/ c.pyld \in {"absent", "raises"}

\* C21: export never fails because of compaction.  When the compaction
\* step is unavailable or throws, export returns the uncompacted document
\* (every field of the input document, and "@context" set to the exporter's
\* context) and writes that document when a destination is given.
C21_CompactionBestEffort ==
    (/\ eres.called /\ ecall.fn = "export"
     /\ AllDocuments(ecall.items) /\ NotCompacted(ecall)) =>
        LET input == ecall.items[1].fields
            out == eres.doc.fields
        IN  /\ eres.doc.class = "dict"
            /\ DOMAIN out = DOMAIN input \cup {"@context"}
            /\ out["@context"] = ContextOf(ecall.context)
            /\ \A k \in DOMAIN input \ {"@context"} : out[k] = input[k]
            /\ eres.written = IF ecall.output THEN WrittenDoc(eres.doc)
                              ELSE NotWritten

\* jsonld.compact raises, and the document {"a": "1"} is returned with its
\* context and written.
C21_Witness ==
    /\ eres.called /\ ecall.fn = "export"
    /\ ecall.compact /\ ecall.pyld = "raises" /\ ecall.output
    /\ ecall.items = <<Dict([k \in {"a"} |-> "1"])>>
    /\ eres.written.kind = "document"
    /\ eres.doc.fields["a"] = "1"


-----------------------------------------------------------------------------
(* The export of the bridge *)

\* mapping.target.format of a configuration, "jsonld" when it has none; for
\* a configuration without the mapping level, its target.format.
TargetFormat(config) ==
    LET meta == IF "mapping" \in DOMAIN config THEN config["mapping"]
                ELSE config
    IN  GetOr(GetOr(meta, "target", NoSchemas), "format", "jsonld")

\* C22: with an output path, the file follows mapping.target.format: with
\* json it is the plain list of documents, without @context; with jsonld or
\* no format it is one document carrying @context when there is exactly one
\* result, and a {@context, @graph} wrapper otherwise.
C22_FileFollowsFormat ==
    (bpc = "returned" /\ bcfg.output) =>
        IF TargetFormat(bcfg.config) = "json"
        THEN /\ bwritten.kind = "list"
             /\ bwritten.list = bcfg.executes
        ELSE /\ bwritten.kind = "document"
             /\ "@context" \in DOMAIN bwritten.doc.fields
             /\ Len(bcfg.executes) # 1 =>
                   DOMAIN bwritten.doc.fields = {"@context", "@graph"}
             /\ Len(bcfg.executes) = 1 =>
                   "@graph" \notin DOMAIN bwritten.doc.fields


\* C28: transform returns the same list of documents whether or not an
\* output path is supplied: the documents returned are those the engine
\* produced, with no "@context" or other key added by the export.
C28_ExportLeavesDocuments ==
    bpc = "returned" =>
        /\ bout.docs = bcfg.executes
        /\ \A i \in DOMAIN bout.docs :
              DOMAIN bout.docs[i].fields = DOMAIN bcfg.executes[i].fields

-----------------------------------------------------------------------------
(* The errors of the engine *)

\* C23: every failure MappingEngine.execute surfaces to its caller is a
\* DPPBridgeError, namely a ConnectorError or a MappingError.
C23_OneBaseError ==
    (api = "execute" /\ outcome.kind = "raised") =>
        outcome.err.exc \in {"ConnectorError", "MappingError"}

\* What MappingEngine.execute gives for a list of records, from the
\* configuration as loaded: the documents, or MappingError.
RECURSIVE ExecuteLoop(_, _, _, _)
ExecuteLoop(rules, recs, h, docs) ==
    IF recs = <<>>
    THEN [kind |-> "returned", docs |-> docs, exc |-> "none"]
    ELSE LET t == Transform(rules, Head(recs), h)
         IN  IF t.ok
             THEN ExecuteLoop(rules, Tail(recs), t.heap, Append(docs, t.doc))
             ELSE [kind |-> "raised", docs |-> <<>>, exc |-> "MappingError"]

\* C24: DPPBridge.map(DPPBridge.extract(source, connector), mapping) yields
\* the documents MappingEngine.execute(mapping, source) yields, and fails in
\* the same cases with the same error type (MappingError for a missing
\* required field, an unknown transform name and an exception inside a
\* transform).
C24_StepwiseAsExecute ==
    (api = "stepwise" /\ Finished /\ call = 1 /\ BatchParsed) =>
        LET e == ExecuteLoop(mapping.rules, records, HeapInit, <<>>)
        IN  /\ outcome.kind = e.kind
            /\ outcome.docs = e.docs
            /\ outcome.kind = "raised" => outcome.err.exc = e.exc

-----------------------------------------------------------------------------
(* The synthesized keys of the ISA-95 connector *)

HasChild(elem, tag, text) ==
    \E i \in DOMAIN elem.children :
        elem.children[i].tag = tag /\ elem.children[i].text = text

SynthesizedKey(x) == "MaterialLot/Property[@ID='" \o x \o "']/Value"

\* C25: every synthesized key <parent>/Property[@ID='x']/Value of a record
\* holds the Value child of a Property element whose own ID child is x; the
\* ID of one Property element is never paired with the Value of another.
C25_IdWithOwnValue ==
    \A i \in DOMAIN xyielded :
        \A x \in PropertyIds :
            SynthesizedKey(x) \in DOMAIN xyielded[i] =>
                \E j \in DOMAIN xelements[i].children :
                    LET p == xelements[i].children[j]
                    IN  /\ p.tag = "Property"
                        /\ HasChild(p, "ID", x)
                        /\ HasChild(p, "Value", xyielded[i][SynthesizedKey(x)])

-----------------------------------------------------------------------------
(* Required rules and the documents returned *)

\* C26: whenever MappingEngine.execute returns successfully, every output
\* document contains a non-None value at the target path of every rule
\* marked required, rules that carry a transform included.
C26_RequiredInOutput ==
    (api = "execute" /\ outcome.kind = "returned") =>
        \A i \in DOMAIN outcome.docs :
            \A j \in DOMAIN Rules :
                Rules[j].required =>
                    ValueAt(outcome.docs[i], heap, Rules[j].target) # None

-----------------------------------------------------------------------------
(* Writing below a value that is not a mapping *)

\* A string or a number, as opposed to a dict of the document or a container
\* of the configuration.
Scalar(v) == v # None /\ v # EmptyDict /\ ~IsRef(v)

\* For rec, rule j writes below the target of an earlier rule i that stored
\* a scalar there, and no rule between the two writes at or above that
\* target.
WritesBelowScalar(rec) ==
    \E i, j \in DOMAIN Rules :
        /\ i < j
        /\ Scalar(FinalVal(Rules[i], rec))
        /\ IsPrefix(Rules[i].target, Rules[j].target)
        /\ Rules[i].target # Rules[j].target
        /\ Writes(Rules[j], rec)
        /\ \A k \in (i + 1)..(j - 1) :
               ~(IsPrefix(Rules[k].target, Rules[i].target)
                    /\ Writes(Rules[k], rec))

\* C27: a rule writing to target p.k after an earlier rule of the same
\* record stored a non-mapping value at p never silently corrupts the
\* document: the transformation of the record fails and execute raises
\* MappingError with no documents returned.
C27_NoSilentCorruption ==
    [][(/\ api = "execute"
        /\ applied' = applied + 1
        /\ WritesBelowScalar(records[Len(results) + 1]))
       => (/\ results' = results
           /\ outcome'.kind = "raised"
           /\ outcome'.err.exc = "MappingError"
           /\ outcome'.docs = <<>>)]_vars

\* execute has raised the MappingError that wraps the TypeError of
\* _set_nested, for a record of which a rule writes below a scalar.
C27_Witness ==
    /\ api = "execute"
    /\ pc = "raised"
    /\ outcome.err = [exc |-> "MappingError",
                      msg |-> <<"Transformation failed", "not a mapping">>]
    /\ Len(results) < Len(records)
    /\ WritesBelowScalar(records[Len(results) + 1])
    /\ Scalar(FinalVal(Rules[1], records[Len(results) + 1]))
    /\ outcome.at = 2

-----------------------------------------------------------------------------
(* The CSV connector: skipped rows, and one parse after another *)

CsvParsed == csvSource.kind = "file"

\* C29: with skip_rows = n, parse ignores the first n lines of the file and
\* uses line n + 1 as the header row, for every delimiter setting, the
\* default "," for which the delimiter is sniffed included.
C29_SkipRows ==
    (CsvParsed /\ csvArgs.skip_rows <= Len(csvSource.lines)) =>
        LET n == csvArgs.skip_rows
            r == DictRead(SubSeq(csvSource.lines, n + 1,
                                 Len(csvSource.lines)),
                          csvDelimiter)
        IN  csvYielded = r.yielded /\ csvError = r.error

\* What a new instance with the same arguments gives for the file.
Fresh == Parse(DelimiterOf(csvArgs.delimiter), csvArgs.skip_rows, csvSource)

\* C30: the records an instance yields for a file do not depend on the files
\* the instance parsed before: the delimiter used is the configured one or
\* the one sniffed from that file.
C30_NoStateBetweenCalls ==
    CsvParsed => csvYielded = Fresh.yielded /\ csvError = Fresh.error

====
